---------------------------- MODULE Spec2Model ----------------------------
(***************************************************************************)
(* Conversation state machine of the sensor-installation assistant:        *)
(* rag/state.py (ConversationState, StateManager) and rag/bot.py           *)
(* (InstallationBot.process_message and its stage handlers).               *)
(*                                                                         *)
(* Python values that may be None, an int or a str are carried as tagged   *)
(* records (None, PyInt(n), PyStr(s)) so that truthiness ("if not x") and the  *)
(* TypeError of comparing a str with an int can be modelled.  Messages     *)
(* are sequences of one-character strings so that "word in message",       *)
(* message.lower() and re.search(r'(\d+)') are computed, not assumed.      *)
(***************************************************************************)
EXTENDS Integers, Sequences, FiniteSets, TLC

\* ------------------------------------------------------------------ bounds
MaxIssues == 1        \* add_issue is applied only while len(issues) < MaxIssues
MaxSensors == 5       \* the number messages "0" .. str(MaxSensors) are sent

\* ------------------------------------------------------- python values
None == [k |-> "none", n |-> 0, s |-> ""]
PyInt(n) == [k |-> "int", n |-> n, s |-> ""]
PyStr(s) == [k |-> "str", n |-> 0, s |-> s]
PyBool(b) == [k |-> "bool", n |-> IF b THEN 1 ELSE 0, s |-> ""]

\* bool(x): None, 0, "" and False are falsy
Truthy(v) ==
  CASE v.k = "none" -> FALSE
    [] v.k = "int"  -> v.n # 0
    [] v.k = "bool" -> v.n # 0
    [] OTHER        -> v.s # ""

\* ------------------------------------------------------- characters
UpperChars == <<"A","B","C","D","E","F","G","H","I","J","K","L","M",
                "N","O","P","Q","R","S","T","U","V","W","X","Y","Z">>
LowerChars == <<"a","b","c","d","e","f","g","h","i","j","k","l","m",
                "n","o","p","q","r","s","t","u","v","w","x","y","z">>
DigitChars == <<"0","1","2","3","4","5","6","7","8","9">>

UpperSet == {UpperChars[i] : i \in 1..26}
LowerOf == [c \in UpperSet |-> LowerChars[CHOOSE i \in 1..26 : UpperChars[i] = c]]

LowerChar(c) == IF c \in UpperSet THEN LowerOf[c] ELSE c

\* str.lower()
Lower(m) == [i \in 1..Len(m) |-> LowerChar(m[i])]

\* "w in m" for strings
Contains(m, w) ==
  \E i \in 1..(Len(m) - Len(w) + 1) : \A j \in 1..Len(w) : m[i + j - 1] = w[j]

DigitSet == {DigitChars[i] : i \in 1..10}
DigitOf == [c \in DigitSet |-> (CHOOSE i \in 1..10 : DigitChars[i] = c) - 1]

IsDigit(c) == c \in DigitSet
DigitVal(c) == DigitOf[c]

RECURSIVE DigitRun(_, _, _)
\* value of the maximal run of digits of m that starts at position i,
\* acc being the value of the digits already consumed
DigitRun(m, i, acc) ==
  IF i > Len(m) \/ ~IsDigit(m[i]) THEN acc
  ELSE DigitRun(m, i + 1, acc * 10 + DigitVal(m[i]))

\* int(re.search(r'(\d+)', message).group(1)), or None when no digit occurs
FirstNumber(m) ==
  IF \E i \in 1..Len(m) : IsDigit(m[i])
  THEN LET i == CHOOSE j \in 1..Len(m) :
                    IsDigit(m[j]) /\ \A h \in 1..(j-1) : ~IsDigit(m[h])
       IN PyInt(DigitRun(m, i, 0))
  ELSE None

\* ------------------------------------------------------- literal words
\* the keywords bot.py looks for, as characters
W ==
  [reset |-> <<"r", "e", "s", "e", "t">>,
   yes |-> <<"y", "e", "s">>,
   yeah |-> <<"y", "e", "a", "h">>,
   sure |-> <<"s", "u", "r", "e">>,
   ok |-> <<"o", "k">>,
   okay |-> <<"o", "k", "a", "y">>,
   ready |-> <<"r", "e", "a", "d", "y">>,
   proceed |-> <<"p", "r", "o", "c", "e", "e", "d">>,
   continue |-> <<"c", "o", "n", "t", "i", "n", "u", "e">>,
   yep |-> <<"y", "e", "p">>,
   correct |-> <<"c", "o", "r", "r", "e", "c", "t">>,
   right |-> <<"r", "i", "g", "h", "t">>,
   good |-> <<"g", "o", "o", "d">>,
   fine |-> <<"f", "i", "n", "e">>,
   true |-> <<"t", "r", "u", "e">>,
   y |-> <<"y">>,
   yup |-> <<"y", "u", "p">>,
   absolutely |-> <<"a", "b", "s", "o", "l", "u", "t", "e", "l", "y">>,
   no |-> <<"n", "o">>,
   nope |-> <<"n", "o", "p", "e">>,
   nah |-> <<"n", "a", "h">>,
   not |-> <<"n", "o", "t">>,
   none |-> <<"n", "o", "n", "e">>,
   don_apos_t |-> <<"d", "o", "n", "'", "t">>,
   dont |-> <<"d", "o", "n", "t">>,
   negative |-> <<"n", "e", "g", "a", "t", "i", "v", "e">>,
   n |-> <<"n">>,
   false |-> <<"f", "a", "l", "s", "e">>,
   fan |-> <<"f", "a", "n">>,
   motor |-> <<"m", "o", "t", "o", "r">>,
   pump |-> <<"p", "u", "m", "p">>,
   belt |-> <<"b", "e", "l", "t">>,
   direct |-> <<"d", "i", "r", "e", "c", "t">>,
   close |-> <<"c", "l", "o", "s", "e">>,
   coupled |-> <<"c", "o", "u", "p", "l", "e", "d">>,
   independent |-> <<"i", "n", "d", "e", "p", "e", "n", "d", "e", "n", "t">>,
   bearing |-> <<"b", "e", "a", "r", "i", "n", "g">>,
   center |-> <<"c", "e", "n", "t", "e", "r">>,
   over |-> <<"o", "v", "e", "r">>,
   housing |-> <<"h", "o", "u", "s", "i", "n", "g">>,
   general |-> <<"g", "e", "n", "e", "r", "a", "l">>,
   drill |-> <<"d", "r", "i", "l", "l">>,
   tap |-> <<"t", "a", "p">>,
   epoxy |-> <<"e", "p", "o", "x", "y">>,
   adhesive |-> <<"a", "d", "h", "e", "s", "i", "v", "e">>,
   magnet |-> <<"m", "a", "g", "n", "e", "t">>,
   adapter |-> <<"a", "d", "a", "p", "t", "e", "r">>,
   video |-> <<"v", "i", "d", "e", "o">>,
   show |-> <<"s", "h", "o", "w">>,
   help |-> <<"h", "e", "l", "p">>,
   issue |-> <<"i", "s", "s", "u", "e">>,
   problem |-> <<"p", "r", "o", "b", "l", "e", "m">>,
   next |-> <<"n", "e", "x", "t">>,
   step |-> <<"s", "t", "e", "p">>,
   guide |-> <<"g", "u", "i", "d", "e">>,
   proaxion |-> <<"p", "r", "o", "a", "x", "i", "o", "n">>,
   support |-> <<"s", "u", "p", "p", "o", "r", "t">>,
   expert |-> <<"e", "x", "p", "e", "r", "t">>,
   working |-> <<"w", "o", "r", "k", "i", "n", "g">>,
   full_video |-> <<"f", "u", "l", "l", " ", "v", "i", "d", "e", "o">>,
   show_video |-> <<"s", "h", "o", "w", " ", "v", "i", "d", "e", "o">>,
   step_by_step |-> <<"s", "t", "e", "p", " ", "b", "y", " ", "s", "t", "e", "p">>,
   show_me |-> <<"s", "h", "o", "w", " ", "m", "e">>,
   not_working |-> <<"n", "o", "t", " ", "w", "o", "r", "k", "i", "n", "g">>]

\* the messages sent to the bot, as characters; next_step is a primary_intent
Msg ==
  [hello |-> <<"h", "e", "l", "l", "o">>,
   yes |-> <<"y", "e", "s">>,
   no |-> <<"n", "o">>,
   next |-> <<"n", "e", "x", "t">>,
   fan |-> <<"f", "a", "n">>,
   motor |-> <<"m", "o", "t", "o", "r">>,
   pump |-> <<"p", "u", "m", "p">>,
   belt |-> <<"b", "e", "l", "t", " ", "d", "r", "i", "v", "e", "n">>,
   direct |-> <<"d", "i", "r", "e", "c", "t">>,
   bearing |-> <<"i", "n", "d", "e", "p", "e", "n", "d", "e", "n", "t", " ", "b", "e", "a", "r", "i", "n", "g">>,
   center_1750 |-> <<"c", "e", "n", "t", "e", "r", " ", "h", "u", "n", "g", " ", "1", "7", "5", "0">>,
   rpm_1750 |-> <<"1", "7", "5", "0">>,
   general |-> <<"g", "e", "n", "e", "r", "a", "l">>,
   epoxy |-> <<"e", "p", "o", "x", "y">>,
   magnet |-> <<"m", "a", "g", "n", "e", "t">>,
   adapter |-> <<"a", "d", "a", "p", "t", "e", "r">>,
   full_video |-> <<"s", "h", "o", "w", " ", "m", "e", " ", "t", "h", "e", " ", "f", "u", "l", "l", " ", "v", "i", "d", "e", "o">>,
   step_by_step |-> <<"s", "t", "e", "p", " ", "b", "y", " ", "s", "t", "e", "p">>,
   video |-> <<"s", "h", "o", "w", " ", "m", "e", " ", "a", " ", "v", "i", "d", "e", "o">>,
   help |-> <<"i", " ", "n", "e", "e", "d", " ", "h", "e", "l", "p">>,
   support |-> <<"s", "u", "p", "p", "o", "r", "t">>,
   done |-> <<"i", " ", "a", "m", " ", "d", "o", "n", "e">>,
   problem |-> <<"p", "r", "o", "b", "l", "e", "m">>,
   not_working |-> <<"n", "o", "t", " ", "w", "o", "r", "k", "i", "n", "g">>,
   bearing_only |-> <<"b", "e", "a", "r", "i", "n", "g">>,
   fan_housing |-> <<"f", "a", "n", " ", "h", "o", "u", "s", "i", "n", "g">>,
   sensors_3 |-> <<"3", " ", "s", "e", "n", "s", "o", "r", "s">>,
   rpm_0 |-> <<"0", " ", "r", "p", "m">>,
   video_next |-> <<"n", "e", "x", "t", " ", "v", "i", "d", "e", "o">>,
   help_yes |-> <<"y", "e", "s", " ", "i", " ", "n", "e", "e", "d", " ", "h", "e", "l", "p">>,
   support_ready |-> <<"s", "u", "p", "p", "o", "r", "t", " ", "r", "e", "a", "d", "y">>,
   reset |-> <<"r", "e", "s", "e", "t">>,
   Reset |-> <<"R", "e", "s", "e", "t">>,
   RESET |-> <<"R", "E", "S", "E", "T">>,
   reset_it |-> <<"r", "e", "s", "e", "t", " ", "i", "t">>,
   next_step |-> <<"n", "e", "x", "t", "_", "s", "t", "e", "p">>]

\* ------------------------------------------------------- extraction helpers
HasAny(m, words) == \E w \in words : Contains(m, w)

Affirmatives ==
  {W.yes, W.yeah, W.sure, W.ok, W.okay, W.ready, W.proceed, W.continue, W.yep,
   W.correct, W.right, W.good, W.fine, W.true, W.y, W.yup, W.absolutely}

Negatives ==
  {W.no, W.nope, W.nah, W.not, W.none, W.don_apos_t, W.dont, W.negative, W.n,
   W.false}

is_affirmative(message) == HasAny(Lower(message), Affirmatives)

is_negative(message) == HasAny(Lower(message), Negatives)

\* (mutant) the keyword found is returned instead of the machine's name
extract_machine_type_keyword(message) ==
  LET msg == Lower(message) IN
  IF Contains(msg, W.fan) THEN PyStr("fan")
  ELSE IF Contains(msg, W.motor) THEN PyStr("motor")
  ELSE IF Contains(msg, W.pump) THEN PyStr("pump")
  ELSE None

\* (mutant) only the first keyword of the chain is looked for
extract_machine_type_fan_only(message) ==
  LET msg == Lower(message) IN
  IF Contains(msg, W.fan) THEN PyStr("Fan") ELSE None

\* InstallationBot._extract_machine_type
extract_machine_type(message) ==
  LET msg == Lower(message) IN
  IF Contains(msg, W.fan) THEN PyStr("Fan")
  ELSE IF Contains(msg, W.motor) THEN PyStr("Motor")
  ELSE IF Contains(msg, W.pump) THEN PyStr("Pump")
  ELSE None

extract_configuration(message) ==
  LET msg == Lower(message) IN
  IF Contains(msg, W.belt) THEN PyStr("Belt Driven")
  ELSE IF Contains(msg, W.direct) \/ Contains(msg, W.close) \/ Contains(msg, W.coupled)
       THEN PyStr("Direct/Close Coupled")
  ELSE IF Contains(msg, W.independent) \/ Contains(msg, W.bearing)
       THEN PyStr("Independent Bearing")
  ELSE None

extract_orientation(message) ==
  LET msg == Lower(message) IN
  IF Contains(msg, W.center) THEN PyStr("Center Hung")
  ELSE IF Contains(msg, W.over) THEN PyStr("Overhung")
  ELSE None

extract_rpm(message) == FirstNumber(message)

extract_number(message) == FirstNumber(message)

extract_monitoring_target(message) ==
  LET msg == Lower(message) IN
  IF Contains(msg, W.motor) THEN PyStr("Motor")
  ELSE IF Contains(msg, W.bearing) THEN PyStr("Bearing")
  ELSE IF Contains(msg, W.fan) /\ Contains(msg, W.housing) THEN PyStr("Fan Housing")
  ELSE IF Contains(msg, W.fan) THEN PyStr("Fan")
  ELSE IF Contains(msg, W.general) THEN PyStr("General")
  ELSE None

\* ------------------------------------------------------- ConversationStage
WELCOME == 0
MACHINE_SELECTION == 1
CONFIGURATION_SELECTION == 2
ADDITIONAL_INFO == 3
SENSOR_COUNT == 4
RECOMMENDATION == 5
INSTALLATION_START == 6
INSTALLATION_STEPS == 7
INSTALLATION_COMPLETE == 8

\* len(ConversationStage)
NumStages == 9

StageName(stage) ==
  CASE stage = WELCOME -> "WELCOME"
    [] stage = MACHINE_SELECTION -> "MACHINE_SELECTION"
    [] stage = CONFIGURATION_SELECTION -> "CONFIGURATION_SELECTION"
    [] stage = ADDITIONAL_INFO -> "ADDITIONAL_INFO"
    [] stage = SENSOR_COUNT -> "SENSOR_COUNT"
    [] stage = RECOMMENDATION -> "RECOMMENDATION"
    [] stage = INSTALLATION_START -> "INSTALLATION_START"
    [] stage = INSTALLATION_STEPS -> "INSTALLATION_STEPS"
    [] OTHER -> "INSTALLATION_COMPLETE"

\* ------------------------------------------------------- ConversationState
\* ConversationState.__init__
FreshState ==
  [stage |-> WELCOME,
   machine_type |-> None,
   configuration |-> None,
   orientation |-> None,
   rpm |-> None,
   sensor_count |-> None,
   monitoring_target |-> None,
   recommended_placement |-> <<>>,
   installation_method |-> None,
   current_step |-> None,
   installation_complete |-> FALSE,
   issues |-> <<>>]

\* (mutant) the next index taken two ahead
advance_stage_skipping(st) ==
  LET next_idx == st.stage + 2 IN
  IF next_idx < NumStages THEN [st EXCEPT !.stage = next_idx] ELSE st

\* (mutant) the index wraps around to the first stage
advance_stage_wrapping(st) ==
  [st EXCEPT !.stage = (st.stage + 1) % NumStages]

\* ConversationState.advance_stage
advance_stage(st) ==
  LET next_idx == st.stage + 1 IN
  IF next_idx < NumStages THEN [st EXCEPT !.stage = next_idx] ELSE st

\* an entry of state.issues: the text and, for a help request, the step it names
Issue(text, step) == [text |-> text, step |-> step]

\* ConversationState.add_issue
add_issue(st, issue) == [st EXCEPT !.issues = Append(@, issue)]

\* ConversationState.reset
reset(st) == FreshState

\* ConversationState.to_dict: the stage is stored by name, the rest as is
to_dict(st) ==
  [stage |-> StageName(st.stage),
   machine_type |-> st.machine_type,
   configuration |-> st.configuration,
   orientation |-> st.orientation,
   rpm |-> st.rpm,
   sensor_count |-> st.sensor_count,
   monitoring_target |-> st.monitoring_target,
   recommended_placement |-> st.recommended_placement,
   installation_method |-> st.installation_method,
   current_step |-> st.current_step,
   installation_complete |-> st.installation_complete,
   issues |-> st.issues]

\* ------------------------------------------------------- structured intent
\* The value _get_intent_with_llm returns: None (present = FALSE) or a JSON
\* object; each key may be missing; "entities" is a dict or a list of
\* {type, value} (ent lists the items in order); "primary_intent" is a
\* string (primary, as characters) or some other JSON value.
NoIntent ==
  [present |-> FALSE,
   has_entities |-> FALSE, ent_kind |-> "dict", ent |-> <<>>,
   has_primary |-> FALSE, primary_is_str |-> TRUE, primary |-> <<>>,
   has_aff |-> FALSE, aff |-> None]

Entity(type, value) == [type |-> type, value |-> value]

IntentEntities(kind, ent) ==
  [NoIntent EXCEPT !.present = TRUE, !.has_entities = TRUE,
                   !.ent_kind = kind, !.ent = ent]

IntentPrimary(primary, aff) ==
  [NoIntent EXCEPT !.present = TRUE, !.has_primary = TRUE, !.primary = primary,
                   !.has_aff = TRUE, !.aff = aff]

\* the lookup every handler repeats: entities[key] of a dict, the value of
\* the last {type: key} item of a list, None otherwise
EntityOf(intent, key) ==
  IF intent.present /\ intent.has_entities
  THEN LET hits == {i \in 1..Len(intent.ent) : intent.ent[i].type = key} IN
       IF hits = {} \/ intent.ent_kind \notin {"dict", "list"} THEN None
       ELSE intent.ent[CHOOSE i \in hits : \A j \in hits : j <= i].value
  ELSE None

\* ------------------------------------------------------- knowledge base
Step(title, description) == [title |-> title, description |-> description]

Segment(step_reference, title) ==
  [step_reference |-> step_reference, title |-> title]

Method(name, steps, videos) == [name |-> name, steps |-> steps, videos |-> videos]

Machine(type, methods) == [type |-> type, installation_methods |-> methods]

\* _load_knowledge_base on a missing or invalid file: {}
KB_Empty == [machines |-> <<>>]

\* a knowledge base in the shape bot.py reads: "Drill and Tap" with two steps
\* and a video, "Epoxy Mount" with the placeholder steps of
\* utils/kb_builder.py:202 (an empty description list), "Magnets" under two
\* machines with step lists of different length, "Other Adapter Options" with
\* an empty steps list
KB_Rich ==
  [machines |-> <<
     Machine("Fan", <<
       Method("Drill and Tap",
              << [description |-> << Step("Surface Preparation", "Mark the spot"),
                                     Step("Tap the Hole", "Use a thread tap") >>] >>,
              << [uri |-> "sensor_installation_drill_tap.mp4",
                  segments |-> << Segment(0, "Materials Required"),
                                  Segment(1, "Surface Preparation"),
                                  Segment(2, "Tapping the Hole") >>] >>),
       Method("Epoxy Mount", << [description |-> << >>] >>, << >>),
       Method("Magnets",
              << [description |-> << Step("Clean", "Clean the surface") >>] >>,
              << >>) >>),
     Machine("Motor", <<
       Method("Magnets",
              << [description |-> << Step("Clean", "Clean the surface"),
                                     Step("Attach", "Attach the magnet") >>] >>,
              << >>),
       Method("Other Adapter Options", << >>, << >>) >>) >>]

KnowledgeBases == {KB_Empty, KB_Rich}

RECURSIVE Flatten(_)
Flatten(seqs) == IF seqs = <<>> THEN <<>> ELSE Head(seqs) \o Flatten(Tail(seqs))

\* the installation methods in the order the nested loops visit them
AllMethods(kb) ==
  Flatten([i \in 1..Len(kb.machines) |-> kb.machines[i].installation_methods])

\* the fallback of _get_total_steps
DefaultTotalSteps == 6

\* InstallationBot._get_total_steps: the first method of that name with a
\* non-empty "steps" decides
get_total_steps(kb, method) ==
  LET HasSteps(im) == PyStr(im.name) = method /\ im.steps # <<>>
      hits == SelectSeq(AllMethods(kb), HasSteps)
  IN IF hits = <<>> THEN DefaultTotalSteps
     ELSE Len(hits[1].steps[1].description)

RECURSIVE GuidanceSteps(_, _, _)
\* the loop of _get_step_guidance: its break leaves only the inner loop, so
\* every machine is visited and a later machine with that method overwrites
\* steps; within a machine the first method of that name with steps is taken
GuidanceSteps(machines, method, steps) ==
  IF machines = <<>> THEN steps
  ELSE LET HasSteps(im) == PyStr(im.name) = method /\ im.steps # <<>>
           hits == SelectSeq(Head(machines).installation_methods, HasSteps)
       IN GuidanceSteps(Tail(machines), method,
                        IF hits = <<>> THEN steps ELSE hits[1].steps[1].description)

\* ------------------------------------------------------- video segments
\* self.video_segments: the method the map was prepared for, whether it has
\* the key "full", and its step-number keys; {} is NoSegments
NoSegments == [of |-> "", full |-> FALSE, refs |-> {}]

\* VideoProcessor.prepare_segments_from_kb; video_ok is the environment:
\* the video file is present and ffmpeg extracts the segments
prepare_segments_from_kb(kb, installation_method, video_ok) ==
  LET Named(im) == PyStr(im.name) = installation_method
      hits == SelectSeq(AllMethods(kb), Named)
  IN IF hits = <<>> THEN NoSegments
     ELSE IF hits[1].videos = <<>> THEN NoSegments
     ELSE IF hits[1].videos[1].segments = <<>> THEN NoSegments
     ELSE IF ~video_ok THEN NoSegments
     ELSE LET segs == hits[1].videos[1].segments IN
          [of |-> hits[1].name, full |-> TRUE,
           refs |-> {segs[i].step_reference : i \in 1..Len(segs)} \ {0}]

\* ------------------------------------------------------- responses
\* A response is the template it was built from and the values formatted in.
NoVideo == [kind |-> "none", of |-> "", ref |-> 0]

Resp(t) == [t |-> t, n |-> 0, total |-> 0, arg |-> None, title |-> "",
            recs |-> <<>>, video |-> NoVideo]

WELCOME_MESSAGE == Resp("WELCOME_MESSAGE")

\* InstallationBot._get_step_guidance (the second definition, bot.py:760,
\* is the one the class keeps)
get_step_guidance(kb, vs, method, step_number) ==
  LET steps == GuidanceSteps(kb.machines, method, <<>>) IN
  IF steps = <<>> \/ step_number > Len(steps)
  THEN [Resp("STEP_GUIDANCE_TEMPLATE") EXCEPT
          !.n = step_number,
          !.total = IF step_number + 2 > 6 THEN step_number + 2 ELSE 6,
          !.title = "Continue Installation"]
  ELSE [Resp("STEP_GUIDANCE_TEMPLATE") EXCEPT
          !.n = step_number,
          !.total = Len(steps),
          !.title = steps[step_number].title,
          !.video = IF step_number \in vs.refs
                    THEN [kind |-> "VIDEO", of |-> vs.of, ref |-> step_number]
                    ELSE NoVideo]

\* ------------------------------------------------------- stage handlers
\* A handler's outcome: the state as the handler left it (it mutates the
\* state in place, so this is what the StateManager holds even when the
\* handler raises), the response, the bot's video_segments, and whether an
\* exception left the handler instead of a response.
Done(st, resp, vs) == [st |-> st, resp |-> resp, vs |-> vs, exc |-> FALSE]
Raised(st, kind, vs) == [st |-> st, resp |-> Resp(kind), vs |-> vs, exc |-> TRUE]

\* "entity from the intent, else pattern matching"
Layered(intent, key, fallback) ==
  LET v == EntityOf(intent, key) IN IF Truthy(v) THEN v ELSE fallback

\* (mutant) the welcome step also starts the step counter
handle_welcome_counting(st, vs) ==
  Done(advance_stage([st EXCEPT !.current_step = PyInt(1)]), WELCOME_MESSAGE, vs)

\* InstallationBot._handle_welcome
handle_welcome(st, vs) == Done(advance_stage(st), WELCOME_MESSAGE, vs)

\* InstallationBot._handle_machine_selection
handle_machine_selection(st, message, intent, vs) ==
  LET machine_type == Layered(intent, "machine_type", extract_machine_type(message)) IN
  IF ~Truthy(machine_type) THEN Done(st, Resp("MACHINE_TYPE_ERROR"), vs)
  ELSE LET st1 == advance_stage([st EXCEPT !.machine_type = machine_type]) IN
       IF machine_type = PyStr("Fan") THEN Done(st1, Resp("FAN_CONFIGURATION_PROMPT"), vs)
       ELSE IF machine_type = PyStr("Motor") THEN Done(st1, Resp("MOTOR_CONFIGURATION_PROMPT"), vs)
       ELSE IF machine_type = PyStr("Pump") THEN Done(st1, Resp("PUMP_CONFIGURATION_PROMPT"), vs)
       ELSE Done(st1, [Resp("CONFIGURATION_PROMPT_OTHER") EXCEPT !.arg = machine_type], vs)

\* templates.py:15-48: the configurations each configuration prompt offers
ConfigurationOptions(machine_type) ==
  CASE machine_type = PyStr("Fan") ->
         {PyStr("Belt Driven"), PyStr("Direct/Close Coupled"), PyStr("Independent Bearing")}
    [] machine_type = PyStr("Motor") ->
         {PyStr("AC Induction Motor"), PyStr("DC Motor"), PyStr("Synchronous Motor"),
          PyStr("Variable Frequency Drive (VFD)")}
    [] machine_type = PyStr("Pump") ->
         {PyStr("Centrifugal Pump"), PyStr("Positive Displacement Pump"),
          PyStr("Submersible Pump"), PyStr("Vertical Turbine Pump")}
    [] OTHER -> {}

\* (mutant) the stage advances although no configuration was found
handle_configuration_advancing(st, message, intent, vs) ==
  LET configuration == Layered(intent, "configuration", extract_configuration(message)) IN
  IF ~Truthy(configuration)
  THEN Done(advance_stage(st), [Resp("CONFIGURATION_ERROR") EXCEPT !.arg = st.machine_type], vs)
  ELSE Done(advance_stage([st EXCEPT !.configuration = configuration]),
            [Resp("ORIENTATION_PROMPT") EXCEPT !.arg = st.machine_type], vs)

\* InstallationBot._handle_configuration
handle_configuration(st, message, intent, vs) ==
  LET configuration == Layered(intent, "configuration", extract_configuration(message)) IN
  IF ~Truthy(configuration)
  THEN Done(st, [Resp("CONFIGURATION_ERROR") EXCEPT !.arg = st.machine_type], vs)
  ELSE Done(advance_stage([st EXCEPT !.configuration = configuration]),
            [Resp("ORIENTATION_PROMPT") EXCEPT !.arg = st.machine_type], vs)

\* (mutant) the stage advanced although no RPM was found
handle_additional_info_advancing(st, message, intent, vs) ==
  IF ~Truthy(st.orientation)
  THEN LET orientation == Layered(intent, "orientation", extract_orientation(message)) IN
       IF ~Truthy(orientation)
       THEN Done(st, [Resp("ORIENTATION_ERROR") EXCEPT !.arg = st.machine_type], vs)
       ELSE Done([st EXCEPT !.orientation = orientation],
                 [Resp("RPM_PROMPT") EXCEPT !.arg = st.machine_type], vs)
  ELSE LET rpm == Layered(intent, "number", extract_rpm(message)) IN
       IF ~Truthy(rpm) THEN Done(advance_stage(st), Resp("RPM_ERROR"), vs)
       ELSE Done(advance_stage([st EXCEPT !.rpm = rpm]), Resp("SENSOR_COUNT_PROMPT"), vs)

\* (mutant) a message that gives the orientation is read for the RPM as well
handle_additional_info_both(st, message, intent, vs) ==
  LET orientation == IF Truthy(st.orientation) THEN st.orientation
                     ELSE Layered(intent, "orientation", extract_orientation(message))
      rpm == Layered(intent, "number", extract_rpm(message))
  IN IF ~Truthy(orientation)
     THEN Done(st, [Resp("ORIENTATION_ERROR") EXCEPT !.arg = st.machine_type], vs)
     ELSE IF ~Truthy(rpm)
     THEN Done([st EXCEPT !.orientation = orientation],
               IF Truthy(st.orientation) THEN Resp("RPM_ERROR")
               ELSE [Resp("RPM_PROMPT") EXCEPT !.arg = st.machine_type], vs)
     ELSE Done(advance_stage([st EXCEPT !.orientation = orientation, !.rpm = rpm]),
               Resp("SENSOR_COUNT_PROMPT"), vs)

\* InstallationBot._handle_additional_info
handle_additional_info(st, message, intent, vs) ==
  IF ~Truthy(st.orientation)
  THEN LET orientation == Layered(intent, "orientation", extract_orientation(message)) IN
       IF ~Truthy(orientation)
       THEN Done(st, [Resp("ORIENTATION_ERROR") EXCEPT !.arg = st.machine_type], vs)
       ELSE Done([st EXCEPT !.orientation = orientation],
                 [Resp("RPM_PROMPT") EXCEPT !.arg = st.machine_type], vs)
  ELSE LET rpm == Layered(intent, "number", extract_rpm(message)) IN
       IF ~Truthy(rpm) THEN Done(st, Resp("RPM_ERROR"), vs)
       ELSE Done(advance_stage([st EXCEPT !.rpm = rpm]), Resp("SENSOR_COUNT_PROMPT"), vs)

\* (mutant) a machine_type entity is stored again with the sensor count
handle_sensor_count_retyping(st, message, intent, vs) ==
  LET sensor_count == Layered(intent, "number", extract_number(message))
      machine_type == Layered(intent, "machine_type", st.machine_type)
  IN IF ~Truthy(sensor_count) THEN Done(st, Resp("SENSOR_COUNT_ERROR"), vs)
     ELSE Done(advance_stage([st EXCEPT !.sensor_count = sensor_count,
                                        !.machine_type = machine_type]),
               Resp("MONITORING_TARGET_PROMPT"), vs)

\* InstallationBot._handle_sensor_count
handle_sensor_count(st, message, intent, vs) ==
  LET sensor_count == Layered(intent, "number", extract_number(message)) IN
  IF ~Truthy(sensor_count) THEN Done(st, Resp("SENSOR_COUNT_ERROR"), vs)
  ELSE Done(advance_stage([st EXCEPT !.sensor_count = sensor_count]),
            Resp("MONITORING_TARGET_PROMPT"), vs)

\* the placement list built at bot.py:313-366, by appending while
\* sensor_count reaches the next threshold
\* (mutant) a fourth location appended as for Belt Driven
DirectCoupledLocations_uncapped(sensor_count) ==
  LET r1 == << "Motor Drive-End (DE) - HIGHEST PRIORITY" >>
      r2 == IF sensor_count >= 2
            THEN Append(r1, "Motor Non-Drive-End (NDE) - For motors >= 150 hp") ELSE r1
      r3 == IF sensor_count >= 3
            THEN Append(r2, "Fan shaft bearings (if accessible)") ELSE r2
      r4 == IF sensor_count >= 4 THEN Append(r3, "Fan-Side bearing") ELSE r3
  IN r4

DirectCoupledLocations(sensor_count) ==
  LET r1 == << "Motor Drive-End (DE) - HIGHEST PRIORITY" >>
      r2 == IF sensor_count >= 2
            THEN Append(r1, "Motor Non-Drive-End (NDE) - For motors >= 150 hp") ELSE r1
      r3 == IF sensor_count >= 3
            THEN Append(r2, "Fan shaft bearings (if accessible)") ELSE r2
  IN r3

\* (mutant) the thresholds of locations 3 and 4 tested with > instead of >=
BeltDrivenLocations_off_by_one(sensor_count) ==
  LET r1 == << "Motor Drive-End (DE) - HIGHEST PRIORITY" >>
      r2 == IF sensor_count >= 2
            THEN Append(r1, "Motor Non-Drive-End (NDE) - For motors >= 150 hp") ELSE r1
      r3 == IF sensor_count > 3 THEN Append(r2, "Belt-Side bearing") ELSE r2
      r4 == IF sensor_count > 4 THEN Append(r3, "Fan-Side bearing") ELSE r3
  IN r4

BeltDrivenLocations(sensor_count) ==
  LET r1 == << "Motor Drive-End (DE) - HIGHEST PRIORITY" >>
      r2 == IF sensor_count >= 2
            THEN Append(r1, "Motor Non-Drive-End (NDE) - For motors >= 150 hp") ELSE r1
      r3 == IF sensor_count >= 3 THEN Append(r2, "Belt-Side bearing") ELSE r2
      r4 == IF sensor_count >= 4 THEN Append(r3, "Fan-Side bearing") ELSE r3
  IN r4

\* ideal_count of the two known configurations
IdealDirectCoupled == 3
IdealBeltDriven == 4

\* (mutant) the default "General" dropped: no "or 'General'" at bot.py:310
ChooseTarget_no_default(message, intent) ==
  IF is_negative(message) THEN PyStr("General")
  ELSE Layered(intent, "monitoring_target", extract_monitoring_target(message))

\* bot.py:290-310: the monitoring target stored for a message
ChooseTarget(message, intent) ==
  LET extracted == Layered(intent, "monitoring_target",
                           extract_monitoring_target(message))
      monitoring_target == IF is_negative(message) THEN PyStr("General") ELSE extracted
  IN IF Truthy(monitoring_target) THEN monitoring_target ELSE PyStr("General")

\* (mutant) the generic branch stores a placement as well
handle_recommendation_itemising(st, message, intent, vs) ==
  IF ~Truthy(st.monitoring_target)
  THEN LET st1 == [st EXCEPT !.monitoring_target = ChooseTarget(message, intent)]
           known == st.configuration \in {PyStr("Direct/Close Coupled"), PyStr("Belt Driven")}
       IN IF known /\ st.sensor_count.k \notin {"int", "bool"}
          THEN \* sensor_count >= 2 on None or a str
               Raised(st1, "TypeError", vs)
          ELSE IF st.configuration = PyStr("Direct/Close Coupled")
          THEN LET recommendations == DirectCoupledLocations(st.sensor_count.n) IN
               Done([st1 EXCEPT !.recommended_placement = recommendations],
                    [Resp("RECOMMENDATION_TEMPLATE") EXCEPT
                       !.arg = st.configuration, !.total = IdealDirectCoupled,
                       !.n = st.sensor_count.n, !.recs = recommendations], vs)
          ELSE IF st.configuration = PyStr("Belt Driven")
          THEN LET recommendations == BeltDrivenLocations(st.sensor_count.n) IN
               Done([st1 EXCEPT !.recommended_placement = recommendations],
                    [Resp("RECOMMENDATION_TEMPLATE") EXCEPT
                       !.arg = st.configuration, !.total = IdealBeltDriven,
                       !.n = st.sensor_count.n, !.recs = recommendations], vs)
          ELSE Done([st1 EXCEPT !.recommended_placement = DirectCoupledLocations(1)],
                    [Resp("RECOMMENDATION_GENERIC") EXCEPT
                            !.arg = st.configuration, !.n = st.sensor_count.n], vs)
  ELSE LET from_intent == IF intent.present /\ intent.has_aff THEN intent.aff ELSE PyBool(FALSE)
           affirmative == Truthy(from_intent) \/ is_affirmative(message)
       IN IF affirmative
          THEN Done(advance_stage(st),
                    [Resp("INSTALLATION_METHOD_PROMPT") EXCEPT
                       !.arg = st.machine_type, !.title = "Drill and Tap"], vs)
          ELSE Done([st EXCEPT !.monitoring_target = None],
                    Resp("MONITORING_TARGET_PROMPT"), vs)

\* (mutant) the re-prompt keeps the monitoring target
handle_recommendation_keeping_target(st, message, intent, vs) ==
  IF ~Truthy(st.monitoring_target)
  THEN LET st1 == [st EXCEPT !.monitoring_target = ChooseTarget(message, intent)]
           known == st.configuration \in {PyStr("Direct/Close Coupled"), PyStr("Belt Driven")}
       IN IF known /\ st.sensor_count.k \notin {"int", "bool"}
          THEN \* sensor_count >= 2 on None or a str
               Raised(st1, "TypeError", vs)
          ELSE IF st.configuration = PyStr("Direct/Close Coupled")
          THEN LET recommendations == DirectCoupledLocations(st.sensor_count.n) IN
               Done([st1 EXCEPT !.recommended_placement = recommendations],
                    [Resp("RECOMMENDATION_TEMPLATE") EXCEPT
                       !.arg = st.configuration, !.total = IdealDirectCoupled,
                       !.n = st.sensor_count.n, !.recs = recommendations], vs)
          ELSE IF st.configuration = PyStr("Belt Driven")
          THEN LET recommendations == BeltDrivenLocations(st.sensor_count.n) IN
               Done([st1 EXCEPT !.recommended_placement = recommendations],
                    [Resp("RECOMMENDATION_TEMPLATE") EXCEPT
                       !.arg = st.configuration, !.total = IdealBeltDriven,
                       !.n = st.sensor_count.n, !.recs = recommendations], vs)
          ELSE Done(st1, [Resp("RECOMMENDATION_GENERIC") EXCEPT
                            !.arg = st.configuration, !.n = st.sensor_count.n], vs)
  ELSE LET from_intent == IF intent.present /\ intent.has_aff THEN intent.aff ELSE PyBool(FALSE)
           affirmative == Truthy(from_intent) \/ is_affirmative(message)
       IN IF affirmative
          THEN Done(advance_stage(st),
                    [Resp("INSTALLATION_METHOD_PROMPT") EXCEPT
                       !.arg = st.machine_type, !.title = "Drill and Tap"], vs)
          ELSE Done(st, Resp("MONITORING_TARGET_PROMPT"), vs)

\* (mutant) the re-prompt discards the placement as well
handle_recommendation_discarding(st, message, intent, vs) ==
  IF ~Truthy(st.monitoring_target)
  THEN LET st1 == [st EXCEPT !.monitoring_target = ChooseTarget(message, intent)]
           known == st.configuration \in {PyStr("Direct/Close Coupled"), PyStr("Belt Driven")}
       IN IF known /\ st.sensor_count.k \notin {"int", "bool"}
          THEN \* sensor_count >= 2 on None or a str
               Raised(st1, "TypeError", vs)
          ELSE IF st.configuration = PyStr("Direct/Close Coupled")
          THEN LET recommendations == DirectCoupledLocations(st.sensor_count.n) IN
               Done([st1 EXCEPT !.recommended_placement = recommendations],
                    [Resp("RECOMMENDATION_TEMPLATE") EXCEPT
                       !.arg = st.configuration, !.total = IdealDirectCoupled,
                       !.n = st.sensor_count.n, !.recs = recommendations], vs)
          ELSE IF st.configuration = PyStr("Belt Driven")
          THEN LET recommendations == BeltDrivenLocations(st.sensor_count.n) IN
               Done([st1 EXCEPT !.recommended_placement = recommendations],
                    [Resp("RECOMMENDATION_TEMPLATE") EXCEPT
                       !.arg = st.configuration, !.total = IdealBeltDriven,
                       !.n = st.sensor_count.n, !.recs = recommendations], vs)
          ELSE Done(st1, [Resp("RECOMMENDATION_GENERIC") EXCEPT
                            !.arg = st.configuration, !.n = st.sensor_count.n], vs)
  ELSE LET from_intent == IF intent.present /\ intent.has_aff THEN intent.aff ELSE PyBool(FALSE)
           affirmative == Truthy(from_intent) \/ is_affirmative(message)
       IN IF affirmative
          THEN Done(advance_stage(st),
                    [Resp("INSTALLATION_METHOD_PROMPT") EXCEPT
                       !.arg = st.machine_type, !.title = "Drill and Tap"], vs)
          ELSE Done([st EXCEPT !.monitoring_target = None,
                               !.recommended_placement = << >>],
                    Resp("MONITORING_TARGET_PROMPT"), vs)

\* InstallationBot._handle_recommendation
handle_recommendation(st, message, intent, vs) ==
  IF ~Truthy(st.monitoring_target)
  THEN LET st1 == [st EXCEPT !.monitoring_target = ChooseTarget(message, intent)]
           known == st.configuration \in {PyStr("Direct/Close Coupled"), PyStr("Belt Driven")}
       IN IF known /\ st.sensor_count.k \notin {"int", "bool"}
          THEN \* sensor_count >= 2 on None or a str
               Raised(st1, "TypeError", vs)
          ELSE IF st.configuration = PyStr("Direct/Close Coupled")
          THEN LET recommendations == DirectCoupledLocations(st.sensor_count.n) IN
               Done([st1 EXCEPT !.recommended_placement = recommendations],
                    [Resp("RECOMMENDATION_TEMPLATE") EXCEPT
                       !.arg = st.configuration, !.total = IdealDirectCoupled,
                       !.n = st.sensor_count.n, !.recs = recommendations], vs)
          ELSE IF st.configuration = PyStr("Belt Driven")
          THEN LET recommendations == BeltDrivenLocations(st.sensor_count.n) IN
               Done([st1 EXCEPT !.recommended_placement = recommendations],
                    [Resp("RECOMMENDATION_TEMPLATE") EXCEPT
                       !.arg = st.configuration, !.total = IdealBeltDriven,
                       !.n = st.sensor_count.n, !.recs = recommendations], vs)
          ELSE Done(st1, [Resp("RECOMMENDATION_GENERIC") EXCEPT
                            !.arg = st.configuration, !.n = st.sensor_count.n], vs)
  ELSE LET from_intent == IF intent.present /\ intent.has_aff THEN intent.aff ELSE PyBool(FALSE)
           affirmative == Truthy(from_intent) \/ is_affirmative(message)
       IN IF affirmative
          THEN Done(advance_stage(st),
                    [Resp("INSTALLATION_METHOD_PROMPT") EXCEPT
                       !.arg = st.machine_type, !.title = "Drill and Tap"], vs)
          ELSE Done([st EXCEPT !.monitoring_target = None],
                    Resp("MONITORING_TARGET_PROMPT"), vs)

\* the keyword chain of bot.py:435-442
MethodFromMessage(message) ==
  LET msg == Lower(message) IN
  IF Contains(msg, W.yes) \/ Contains(msg, W.drill) \/ Contains(msg, W.tap)
  THEN PyStr("Drill and Tap")
  ELSE IF Contains(msg, W.epoxy) \/ Contains(msg, W.adhesive) THEN PyStr("Epoxy Mount")
  ELSE IF Contains(msg, W.magnet) THEN PyStr("Magnets")
  ELSE IF Contains(msg, W.adapter) THEN PyStr("Other Adapter Options")
  ELSE None

\* "if intent and 'primary_intent' in intent", and whether .lower() on it raises
HasPrimary(intent) == intent.present /\ intent.has_primary
PrimaryHas(intent, words) == HasPrimary(intent) /\ HasAny(Lower(intent.primary), words)

\* (mutant) choosing the method starts the steps at once
handle_installation_start_at_once(st, message, intent, kb, vs, video_ok) ==
  IF ~Truthy(st.installation_method)
  THEN LET chosen_method == Layered(intent, "installation_method", MethodFromMessage(message)) IN
       IF ~Truthy(chosen_method) THEN Done(st, Resp("INSTALLATION_METHOD_REPROMPT"), vs)
       ELSE Done([advance_stage(st) EXCEPT !.installation_method = chosen_method,
                                            !.current_step = PyInt(1)],
                 [Resp("INSTALLATION_START_TEMPLATE") EXCEPT !.arg = chosen_method],
                 prepare_segments_from_kb(kb, chosen_method, video_ok))
  ELSE IF HasPrimary(intent) /\ ~intent.primary_is_str
  THEN Raised(st, "AttributeError", vs)
  ELSE LET msg == Lower(message)
           i_video == PrimaryHas(intent, {W.video})
           i_steps == PrimaryHas(intent, {W.step, W.guide})
           wants_video == IF ~i_video /\ ~i_steps THEN HasAny(msg, {W.full_video, W.show_video}) ELSE i_video
           wants_steps == IF ~i_video /\ ~i_steps THEN HasAny(msg, {W.step_by_step, W.guide}) ELSE i_steps
           started == [advance_stage(st) EXCEPT !.current_step = PyInt(1)]
       IN IF wants_video
          THEN IF vs.full
               THEN Done(started, [Resp("FULL_VIDEO_TEMPLATE") EXCEPT
                                     !.video = [kind |-> "VIDEO", of |-> vs.of, ref |-> 0]], vs)
               ELSE Done(started, get_step_guidance(kb, vs, st.installation_method, 1), vs)
          ELSE IF wants_steps \/ is_affirmative(message)
          THEN Done(started, get_step_guidance(kb, vs, st.installation_method, 1), vs)
          ELSE Done(st, Resp("VIEWING_MODE_REPROMPT"), vs)

\* InstallationBot._handle_installation_start; video_ok is the environment
\* of prepare_segments_from_kb
handle_installation_start(st, message, intent, kb, vs, video_ok) ==
  IF ~Truthy(st.installation_method)
  THEN LET chosen_method == Layered(intent, "installation_method", MethodFromMessage(message)) IN
       IF ~Truthy(chosen_method) THEN Done(st, Resp("INSTALLATION_METHOD_REPROMPT"), vs)
       ELSE Done([st EXCEPT !.installation_method = chosen_method],
                 [Resp("INSTALLATION_START_TEMPLATE") EXCEPT !.arg = chosen_method],
                 prepare_segments_from_kb(kb, chosen_method, video_ok))
  ELSE IF HasPrimary(intent) /\ ~intent.primary_is_str
  THEN Raised(st, "AttributeError", vs)
  ELSE LET msg == Lower(message)
           i_video == PrimaryHas(intent, {W.video})
           i_steps == PrimaryHas(intent, {W.step, W.guide})
           wants_video == IF ~i_video /\ ~i_steps THEN HasAny(msg, {W.full_video, W.show_video}) ELSE i_video
           wants_steps == IF ~i_video /\ ~i_steps THEN HasAny(msg, {W.step_by_step, W.guide}) ELSE i_steps
           started == [advance_stage(st) EXCEPT !.current_step = PyInt(1)]
       IN IF wants_video
          THEN IF vs.full
               THEN Done(started, [Resp("FULL_VIDEO_TEMPLATE") EXCEPT
                                     !.video = [kind |-> "VIDEO", of |-> vs.of, ref |-> 0]], vs)
               ELSE Done(started, get_step_guidance(kb, vs, st.installation_method, 1), vs)
          ELSE IF wants_steps \/ is_affirmative(message)
          THEN Done(started, get_step_guidance(kb, vs, st.installation_method, 1), vs)
          ELSE Done(st, Resp("VIEWING_MODE_REPROMPT"), vs)

\* the branch conditions of _handle_installation_steps, in the order of its
\* if/elif chain (bot.py:521, 550, 557, 561)
StepsWantsVideo(message, intent) ==
  PrimaryHas(intent, {W.video, W.show}) \/ HasAny(Lower(message), {W.video, W.show_me})

StepsNeedsHelp(message, intent) ==
  PrimaryHas(intent, {W.help, W.problem})
    \/ HasAny(Lower(message), {W.help, W.issue, W.problem})

StepsWantsSupport(message) == HasAny(Lower(message), {W.proaxion, W.support, W.expert})

StepsWantsNext(message, intent) ==
  PrimaryHas(intent, {W.next, W.continue, W.ready})
    \/ is_affirmative(message) \/ HasAny(Lower(message), {W.next, W.ready})

\* the message reaches the "ready for the next step" branch (bot.py:561)
StepsTakesNext(message, intent) ==
  /\ ~(HasPrimary(intent) /\ ~intent.primary_is_str)
  /\ ~StepsWantsVideo(message, intent)
  /\ ~StepsNeedsHelp(message, intent)
  /\ ~StepsWantsSupport(message)
  /\ StepsWantsNext(message, intent)

\* (mutant) completion tested with >= instead of >
handle_installation_steps_early(st, message, intent, kb, vs) ==
  IF StepsWantsNext(message, intent) /\ ~StepsWantsVideo(message, intent)
     /\ ~StepsNeedsHelp(message, intent) /\ ~StepsWantsSupport(message)
     /\ st.current_step.k = "int"
  THEN LET total_steps == get_total_steps(kb, st.installation_method)
           st1 == [st EXCEPT !.current_step = PyInt(@.n + 1)]
       IN IF st1.current_step.n >= total_steps
          THEN Done(advance_stage([st1 EXCEPT !.installation_complete = TRUE]),
                    [Resp("INSTALLATION_COMPLETE_MESSAGE") EXCEPT
                       !.arg = st.installation_method], vs)
          ELSE Done(st1, get_step_guidance(kb, vs, st.installation_method,
                                           st1.current_step.n), vs)
  ELSE Done(st, get_step_guidance(kb, vs, st.installation_method,
                                  st.current_step.n), vs)

\* bot.py:563-574, the "ready for the next step" branch once total_steps has
\* been computed: state.current_step += 1 reads the attribute (loaded), adds 1
\* and writes it back; the rest works on the written value
next_step(st, total_steps, loaded, kb, vs) ==
  IF loaded.k # "int"
  THEN \* None += 1
       Raised(st, "TypeError", vs)
  ELSE LET st1 == [st EXCEPT !.current_step = PyInt(loaded.n + 1)]
       IN IF st1.current_step.n > total_steps
          THEN Done(advance_stage([st1 EXCEPT !.installation_complete = TRUE]),
                    [Resp("INSTALLATION_COMPLETE_MESSAGE") EXCEPT
                       !.arg = st.installation_method], vs)
          ELSE Done(st1, get_step_guidance(kb, vs, st.installation_method,
                                           st1.current_step.n), vs)

\* (mutant) readiness tested before the support request
handle_installation_steps_ready_first(st, message, intent, kb, vs) ==
  IF HasPrimary(intent) /\ ~intent.primary_is_str
  THEN Raised(st, "AttributeError", vs)
  ELSE IF StepsWantsVideo(message, intent)
  THEN IF st.current_step.k = "int" /\ st.current_step.n \in vs.refs
       THEN Done(st, [Resp("VIDEO_SEGMENT_TEMPLATE") EXCEPT
                        !.video = [kind |-> "VIDEO", of |-> vs.of,
                                   ref |-> st.current_step.n]], vs)
       ELSE IF vs.full
       THEN Done(st, [Resp("FULL_VIDEO_FOR_STEP") EXCEPT
                        !.video = [kind |-> "VIDEO", of |-> vs.of, ref |-> 0]], vs)
       ELSE Done(st, Resp("NO_VIDEO_FOR_STEP"), vs)
  ELSE IF StepsNeedsHelp(message, intent)
  THEN Done(add_issue(st, Issue("Needed help with step", st.current_step.n)),
            Resp("HELP_OPTIONS_MESSAGE"), vs)
  ELSE IF StepsWantsNext(message, intent)
  THEN next_step(st, get_total_steps(kb, st.installation_method),
                 st.current_step, kb, vs)
  ELSE IF StepsWantsSupport(message)
  THEN Done(st, Resp("SUPPORT_ESCALATION_MESSAGE"), vs)
  ELSE Done(st, get_step_guidance(kb, vs, st.installation_method,
                                  st.current_step.n), vs)

\* InstallationBot._handle_installation_steps
handle_installation_steps(st, message, intent, kb, vs) ==
  IF HasPrimary(intent) /\ ~intent.primary_is_str
  THEN Raised(st, "AttributeError", vs)
  ELSE IF StepsWantsVideo(message, intent)
  THEN IF st.current_step.k = "int" /\ st.current_step.n \in vs.refs
       THEN Done(st, [Resp("VIDEO_SEGMENT_TEMPLATE") EXCEPT
                        !.video = [kind |-> "VIDEO", of |-> vs.of,
                                   ref |-> st.current_step.n]], vs)
       ELSE IF vs.full
       THEN Done(st, [Resp("FULL_VIDEO_FOR_STEP") EXCEPT
                        !.video = [kind |-> "VIDEO", of |-> vs.of, ref |-> 0]], vs)
       ELSE Done(st, Resp("NO_VIDEO_FOR_STEP"), vs)
  ELSE IF StepsNeedsHelp(message, intent)
  THEN Done(add_issue(st, Issue("Needed help with step", st.current_step.n)),
            Resp("HELP_OPTIONS_MESSAGE"), vs)
  ELSE IF StepsWantsSupport(message)
  THEN Done(st, Resp("SUPPORT_ESCALATION_MESSAGE"), vs)
  ELSE IF StepsWantsNext(message, intent)
  THEN next_step(st, get_total_steps(kb, st.installation_method),
                 st.current_step, kb, vs)
  ELSE Done(st, get_step_guidance(kb, vs, st.installation_method,
                                  st.current_step.n), vs)

\* (mutant) an issue report reopens the installation
handle_installation_complete_reopening(st, message, intent, vs) ==
  IF HasPrimary(intent) /\ ~intent.primary_is_str
  THEN Raised(st, "AttributeError", vs)
  ELSE LET msg == Lower(message)
           i_success == IF intent.present /\ intent.has_aff THEN Truthy(intent.aff) ELSE FALSE
           i_issue == PrimaryHas(intent, {W.issue, W.problem})
           is_successful == IF ~i_success /\ ~i_issue
                            THEN HasAny(msg, {W.yes, W.working}) ELSE i_success
           has_issue == IF ~i_success /\ ~i_issue
                        THEN HasAny(msg, {W.issue, W.problem, W.not_working}) ELSE i_issue
       IN IF is_successful THEN Done(st, Resp("SUCCESSFUL_INSTALLATION_MESSAGE"), vs)
          ELSE IF has_issue
          THEN Done(add_issue([st EXCEPT !.installation_complete = FALSE],
                              Issue("Issue after installation", 0)),
                    Resp("INSTALLATION_ISSUE_MESSAGE"), vs)
          ELSE Done(st, Resp("INSTALLATION_COMPLETE_REPROMPT"), vs)

\* InstallationBot._handle_installation_complete
handle_installation_complete(st, message, intent, vs) ==
  IF HasPrimary(intent) /\ ~intent.primary_is_str
  THEN Raised(st, "AttributeError", vs)
  ELSE LET msg == Lower(message)
           i_success == IF intent.present /\ intent.has_aff THEN Truthy(intent.aff) ELSE FALSE
           i_issue == PrimaryHas(intent, {W.issue, W.problem})
           is_successful == IF ~i_success /\ ~i_issue
                            THEN HasAny(msg, {W.yes, W.working}) ELSE i_success
           has_issue == IF ~i_success /\ ~i_issue
                        THEN HasAny(msg, {W.issue, W.problem, W.not_working}) ELSE i_issue
       IN IF is_successful THEN Done(st, Resp("SUCCESSFUL_INSTALLATION_MESSAGE"), vs)
          ELSE IF has_issue
          THEN Done(add_issue(st, Issue("Issue after installation", 0)),
                    Resp("INSTALLATION_ISSUE_MESSAGE"), vs)
          ELSE Done(st, Resp("INSTALLATION_COMPLETE_REPROMPT"), vs)

\* a message consisting of the decimal digit n (0 <= n <= 9)
NumMsg(n) == << DigitChars[n + 1] >>

\* ------------------------------------------------------- state
VARIABLES
  knowledge_base,   \* InstallationBot.knowledge_base (read-only after load)
  states,           \* StateManager.states: user_id -> ConversationState
  video_segments,   \* InstallationBot.video_segments (one per bot)
  response,         \* outcome of the last process_message call
  storage_path,     \* StateManager.storage_path
  storage,          \* the file at storage_path
  manager,          \* whether the bot's StateManager was constructed
  calls,            \* the process_message calls in flight, one per thread
  base              \* the user's state when the calls in flight began

vars == <<knowledge_base, states, video_segments, response,
          storage_path, storage, manager, calls, base>>

Users == {"alice", "bob"}

\* self.use_llm after a successful GenerativeModel("gemini-pro")
use_llm == TRUE

\* StateManager.get_state: the stored state, or a fresh one
get_state(sts, user_id) ==
  IF user_id \in DOMAIN sts THEN sts[user_id] ELSE FreshState

\* (mutant) every user of the bot is given the one state object
SetState_shared(sts, user_id, st) ==
  [u \in DOMAIN sts \cup {user_id} |-> st]

\* self.states[user_id] = state
SetState(sts, user_id, st) ==
  [u \in DOMAIN sts \cup {user_id} |-> IF u = user_id THEN st ELSE sts[u]]

\* (mutant) the comparison made without lower()
IsReset_case_sensitive(message) == message = W.reset

\* message.lower() == "reset"
IsReset(message) == Lower(message) = W.reset

\* bot.py:62-64: the extractor is consulted only for messages longer than 3
IntentFor(message, intent) ==
  IF use_llm /\ Len(message) > 3 THEN intent ELSE NoIntent

Returned(resp) == [resp |-> resp, exc |-> FALSE]

\* the file at storage_path before anything was written to it
NoFile == [exists |-> FALSE, data |-> << >>]

\* StateManager._save_states: every user's to_dict(), written to the file
save_states(sts) == [exists |-> TRUE, data |-> [u \in DOMAIN sts |-> to_dict(sts[u])]]

\* StateManager.save_state after self.states[user_id] = state: the file is
\* rewritten only if a storage path was given
Saved(sts) == IF Truthy(storage_path) THEN save_states(sts) ELSE storage

\* the file after open(path, 'w') succeeded and the write did not
Truncated == [exists |-> TRUE, data |-> << >>]

\* whether open() and json.dump() of _save_states succeed is up to the file
\* system; without a storage path nothing is written
WriteOutcomes == IF Truthy(storage_path) THEN BOOLEAN ELSE {TRUE}

\* save_state as the last statement before the return of process_message:
\* _save_states has no exception handler, so a failed write propagates out of
\* save_state and process_message instead of the response
SaveAndReturn(resp, write_ok) ==
  IF write_ok
  THEN /\ storage' = Saved(states')
       /\ response' = Returned(resp)
  ELSE /\ storage' \in {storage, Truncated}
       /\ response' = [resp |-> Resp("OSError"), exc |-> TRUE]

\* the threads that call process_message
Threads == {1, 2}

\* a thread that is not inside process_message
Idle ==
  [pc |-> "idle", message |-> << >>, intent |-> NoIntent, video_ok |-> FALSE,
   stage |-> WELCOME, total_steps |-> 0, loaded |-> None,
   result |-> Returned(Resp("NONE"))]

\* what process_message leaves behind once a handler has run: the state
\* mutated in place and, unless the handler raised, the returned response
Finish(user_id, r) ==
  /\ manager = "up"
  /\ Len(r.st.issues) <= MaxIssues
  /\ states' = SetState(states, user_id, r.st)
  /\ video_segments' = r.vs
  /\ IF r.exc
     THEN /\ response' = [resp |-> r.resp, exc |-> TRUE]
          /\ storage' = storage
     ELSE \E write_ok \in WriteOutcomes : SaveAndReturn(r.resp, write_ok)
  /\ UNCHANGED <<knowledge_base, storage_path, manager, calls, base>>

Stage(user_id) == get_state(states, user_id).stage

\* ------------------------------------------------------- process_message
\* bot.py:56-59
Reset(user_id, message) ==
  /\ manager = "up"
  /\ IsReset(message)
  /\ states' = SetState(states, user_id, reset(get_state(states, user_id)))
  /\ \E write_ok \in WriteOutcomes : SaveAndReturn(WELCOME_MESSAGE, write_ok)
  /\ UNCHANGED <<knowledge_base, video_segments, storage_path, manager, calls, base>>

HandleWelcome(user_id, message, intent) ==
  /\ Stage(user_id) = WELCOME
  /\ ~IsReset(message)
  /\ \E r \in {handle_welcome(get_state(states, user_id), video_segments)} : Finish(user_id, r)

HandleMachineSelection(user_id, message, intent) ==
  /\ Stage(user_id) = MACHINE_SELECTION
  /\ ~IsReset(message)
  /\ \E r \in {handle_machine_selection(get_state(states, user_id), message,
                        IntentFor(message, intent), video_segments)} : Finish(user_id, r)

HandleConfiguration(user_id, message, intent) ==
  /\ Stage(user_id) = CONFIGURATION_SELECTION
  /\ ~IsReset(message)
  /\ \E r \in {handle_configuration(get_state(states, user_id), message,
                        IntentFor(message, intent), video_segments)} : Finish(user_id, r)

HandleAdditionalInfo(user_id, message, intent) ==
  /\ Stage(user_id) = ADDITIONAL_INFO
  /\ ~IsReset(message)
  /\ \E r \in {handle_additional_info(get_state(states, user_id), message,
                        IntentFor(message, intent), video_segments)} : Finish(user_id, r)

HandleSensorCount(user_id, message, intent) ==
  /\ Stage(user_id) = SENSOR_COUNT
  /\ ~IsReset(message)
  /\ \E r \in {handle_sensor_count(get_state(states, user_id), message,
                        IntentFor(message, intent), video_segments)} : Finish(user_id, r)

HandleRecommendation(user_id, message, intent) ==
  /\ Stage(user_id) = RECOMMENDATION
  /\ ~IsReset(message)
  /\ \E r \in {handle_recommendation(get_state(states, user_id), message,
                        IntentFor(message, intent), video_segments)} : Finish(user_id, r)

HandleInstallationStart(user_id, message, intent) ==
  /\ Stage(user_id) = INSTALLATION_START
  /\ ~IsReset(message)
  /\ \E video_ok \in BOOLEAN :
       \E r \in {handle_installation_start(get_state(states, user_id), message,
                      IntentFor(message, intent), knowledge_base, video_segments,
                      video_ok)} : Finish(user_id, r)

HandleInstallationSteps(user_id, message, intent) ==
  /\ Stage(user_id) = INSTALLATION_STEPS
  /\ ~IsReset(message)
  /\ \E r \in {handle_installation_steps(get_state(states, user_id), message,
                        IntentFor(message, intent), knowledge_base, video_segments)} : Finish(user_id, r)

HandleInstallationComplete(user_id, message, intent) ==
  /\ Stage(user_id) = INSTALLATION_COMPLETE
  /\ ~IsReset(message)
  /\ \E r \in {handle_installation_complete(get_state(states, user_id), message,
                        IntentFor(message, intent), video_segments)} : Finish(user_id, r)

\* a value of state.stage that is none of the nine members of the enum
UnknownStage == NumStages

\* (mutant) the fallback answers without resetting the state
unknown_stage_keeping(st, vs) == Done(st, Resp("START_OVER"), vs)

\* bot.py:84-87: no comparison of the chain matched
unknown_stage(st, vs) == Done(reset(st), Resp("START_OVER"), vs)

HandleUnknownStage(user_id, message, intent) ==
  /\ Stage(user_id) \notin 0..(NumStages - 1)
  /\ ~IsReset(message)
  /\ \E r \in {unknown_stage(get_state(states, user_id), video_segments)} : Finish(user_id, r)

\* ------------------------------------------------------- inputs
Input(message, intent) == [message |-> message, intent |-> intent]

ResetMessages == {Msg.reset, Msg.Reset, Msg.RESET}

\* a structured intent that signals readiness and is affirmative
ReadyIntent == IntentPrimary(Msg.next_step, PyBool(TRUE))

\* a structured intent naming a monitoring target
TargetIntent == IntentEntities("dict", << Entity("monitoring_target", PyStr("Motor")) >>)

\* messages every stage may receive: one no handler understands and one
\* that looks like a reset without being one
OffScript == {Input(Msg.hello, NoIntent), Input(Msg.reset_it, NoIntent)}

Plain(messages) == {Input(m, NoIntent) : m \in messages}

\* The (message, intent) pairs sent to a conversation in a given stage when
\* the questions up to the recommendation are answered in every way the
\* handlers distinguish and the installation is followed step by step.
IntakeInputs(stage) ==
  OffScript \cup
  CASE stage = WELCOME -> Plain({Msg.fan})
    [] stage = MACHINE_SELECTION -> Plain({Msg.fan, Msg.motor, Msg.pump})
    [] stage = CONFIGURATION_SELECTION -> Plain({Msg.belt, Msg.direct, Msg.bearing})
    [] stage = ADDITIONAL_INFO -> Plain({Msg.center_1750, Msg.rpm_1750})
    [] stage = SENSOR_COUNT -> Plain({NumMsg(n) : n \in 0..MaxSensors})
    [] stage = RECOMMENDATION ->
         Plain({Msg.general, Msg.motor, Msg.bearing_only, Msg.fan_housing, Msg.fan,
                Msg.yes, Msg.no})
         \cup {Input(Msg.hello, TargetIntent), Input(Msg.done, ReadyIntent)}
    [] stage = INSTALLATION_START -> Plain({Msg.yes})
    [] stage = INSTALLATION_STEPS -> Plain({Msg.yes})
    [] OTHER -> Plain({Msg.yes, Msg.problem})

\* The pairs sent when the questions are answered in one way and every
\* installation method, viewing mode and step request is exercised.
InstallInputs(stage) ==
  OffScript \cup
  CASE stage = WELCOME -> {}
    [] stage = MACHINE_SELECTION -> Plain({Msg.fan})
    [] stage = CONFIGURATION_SELECTION -> Plain({Msg.belt})
    [] stage = ADDITIONAL_INFO -> Plain({Msg.center_1750, Msg.rpm_1750})
    [] stage = SENSOR_COUNT -> Plain({NumMsg(3)})
    [] stage = RECOMMENDATION -> Plain({Msg.general, Msg.yes})
    [] stage = INSTALLATION_START ->
         Plain({Msg.yes, Msg.epoxy, Msg.magnet, Msg.adapter, Msg.full_video, Msg.step_by_step})
    [] stage = INSTALLATION_STEPS ->
         Plain({Msg.yes, Msg.next, Msg.video, Msg.help, Msg.support, Msg.done,
                Msg.video_next, Msg.help_yes, Msg.support_ready})
         \cup {Input(Msg.done, ReadyIntent)}
    [] OTHER -> Plain({Msg.yes, Msg.problem, Msg.not_working})

\* ------------------------------------------------------- specifications
\* InstallationBot.__init__ in a process started for the first time
InitBot(state_storage_path) ==
  /\ knowledge_base \in KnowledgeBases
  /\ states = << >>
  /\ video_segments = NoSegments
  /\ response = Returned(Resp("NONE"))
  /\ storage_path = state_storage_path
  /\ storage = NoFile
  /\ manager = "up"
  /\ calls = [t \in Threads |-> Idle]
  /\ base = [st |-> FreshState, vs |-> NoSegments]

\* the bot as api/routes.py and enhanced_web.py construct it: no storage path
Init == InitBot(None)

\* bot.py:66-87: the chain that picks the handler of the current stage
Handle(user_id, message, intent) ==
  \/ HandleWelcome(user_id, message, intent)
  \/ HandleMachineSelection(user_id, message, intent)
  \/ HandleConfiguration(user_id, message, intent)
  \/ HandleAdditionalInfo(user_id, message, intent)
  \/ HandleSensorCount(user_id, message, intent)
  \/ HandleRecommendation(user_id, message, intent)
  \/ HandleInstallationStart(user_id, message, intent)
  \/ HandleInstallationSteps(user_id, message, intent)
  \/ HandleInstallationComplete(user_id, message, intent)
  \/ HandleUnknownStage(user_id, message, intent)

\* InstallationBot.process_message
process_message(user_id, message, intent) ==
  \/ Reset(user_id, message)
  \/ Handle(user_id, message, intent)

ResetInputs == Plain(ResetMessages)

\* one user, every answer to the questions
Next ==
  \/ \E inp \in ResetInputs : Reset("alice", inp.message)
  \/ \E inp \in IntakeInputs(WELCOME) :
       HandleWelcome("alice", inp.message, inp.intent)
  \/ \E inp \in IntakeInputs(MACHINE_SELECTION) :
       HandleMachineSelection("alice", inp.message, inp.intent)
  \/ \E inp \in IntakeInputs(CONFIGURATION_SELECTION) :
       HandleConfiguration("alice", inp.message, inp.intent)
  \/ \E inp \in IntakeInputs(ADDITIONAL_INFO) :
       HandleAdditionalInfo("alice", inp.message, inp.intent)
  \/ \E inp \in IntakeInputs(SENSOR_COUNT) :
       HandleSensorCount("alice", inp.message, inp.intent)
  \/ \E inp \in IntakeInputs(RECOMMENDATION) :
       HandleRecommendation("alice", inp.message, inp.intent)
  \/ \E inp \in IntakeInputs(INSTALLATION_START) :
       HandleInstallationStart("alice", inp.message, inp.intent)
  \/ \E inp \in IntakeInputs(INSTALLATION_STEPS) :
       HandleInstallationSteps("alice", inp.message, inp.intent)
  \/ \E inp \in IntakeInputs(INSTALLATION_COMPLETE) :
       HandleInstallationComplete("alice", inp.message, inp.intent)

Spec == Init /\ [][Next]_vars

\* one user, every installation path
NextInstall ==
  \/ \E inp \in ResetInputs : Reset("alice", inp.message)
  \/ \E inp \in InstallInputs(WELCOME) :
       HandleWelcome("alice", inp.message, inp.intent)
  \/ \E inp \in InstallInputs(MACHINE_SELECTION) :
       HandleMachineSelection("alice", inp.message, inp.intent)
  \/ \E inp \in InstallInputs(CONFIGURATION_SELECTION) :
       HandleConfiguration("alice", inp.message, inp.intent)
  \/ \E inp \in InstallInputs(ADDITIONAL_INFO) :
       HandleAdditionalInfo("alice", inp.message, inp.intent)
  \/ \E inp \in InstallInputs(SENSOR_COUNT) :
       HandleSensorCount("alice", inp.message, inp.intent)
  \/ \E inp \in InstallInputs(RECOMMENDATION) :
       HandleRecommendation("alice", inp.message, inp.intent)
  \/ \E inp \in InstallInputs(INSTALLATION_START) :
       HandleInstallationStart("alice", inp.message, inp.intent)
  \/ \E inp \in InstallInputs(INSTALLATION_STEPS) :
       HandleInstallationSteps("alice", inp.message, inp.intent)
  \/ \E inp \in InstallInputs(INSTALLATION_COMPLETE) :
       HandleInstallationComplete("alice", inp.message, inp.intent)

SpecInstall == Init /\ [][NextInstall]_vars

\* The pairs sent when two users of one bot answer the questions up to the
\* recommendation and ask for it again.
TwoUserInputs(stage) ==
  CASE stage = WELCOME -> Plain({Msg.hello})
    [] stage = MACHINE_SELECTION -> Plain({Msg.fan, Msg.motor})
    [] stage = CONFIGURATION_SELECTION -> Plain({Msg.belt, Msg.direct})
    [] stage = ADDITIONAL_INFO -> Plain({Msg.center_1750, Msg.rpm_1750})
    [] stage = SENSOR_COUNT -> Plain({NumMsg(n) : n \in 1..MaxSensors})
    [] OTHER -> Plain({Msg.general, Msg.hello})

\* two users of one bot, up to the recommendation
NextTwoUsers ==
  \/ \E u \in Users : Reset(u, Msg.reset)
  \/ \E u \in Users : \E inp \in TwoUserInputs(WELCOME) :
       HandleWelcome(u, inp.message, inp.intent)
  \/ \E u \in Users : \E inp \in TwoUserInputs(MACHINE_SELECTION) :
       HandleMachineSelection(u, inp.message, inp.intent)
  \/ \E u \in Users : \E inp \in TwoUserInputs(CONFIGURATION_SELECTION) :
       HandleConfiguration(u, inp.message, inp.intent)
  \/ \E u \in Users : \E inp \in TwoUserInputs(ADDITIONAL_INFO) :
       HandleAdditionalInfo(u, inp.message, inp.intent)
  \/ \E u \in Users : \E inp \in TwoUserInputs(SENSOR_COUNT) :
       HandleSensorCount(u, inp.message, inp.intent)
  \/ \E u \in Users : \E inp \in TwoUserInputs(RECOMMENDATION) :
       HandleRecommendation(u, inp.message, inp.intent)

SpecTwoUsers == Init /\ [][NextTwoUsers]_vars


\* ------------------------------------------------------- concurrent calls
\* bot.py:66-87 as a function of the stage the chain compared against
run_handler(stage, st, message, intent, kb, vs, video_ok) ==
  CASE stage = WELCOME -> handle_welcome(st, vs)
    [] stage = MACHINE_SELECTION -> handle_machine_selection(st, message, intent, vs)
    [] stage = CONFIGURATION_SELECTION -> handle_configuration(st, message, intent, vs)
    [] stage = ADDITIONAL_INFO -> handle_additional_info(st, message, intent, vs)
    [] stage = SENSOR_COUNT -> handle_sensor_count(st, message, intent, vs)
    [] stage = RECOMMENDATION -> handle_recommendation(st, message, intent, vs)
    [] stage = INSTALLATION_START ->
         handle_installation_start(st, message, intent, kb, vs, video_ok)
    [] stage = INSTALLATION_STEPS -> handle_installation_steps(st, message, intent, kb, vs)
    [] stage = INSTALLATION_COMPLETE ->
         handle_installation_complete(st, message, intent, vs)
    [] OTHER -> unknown_stage(st, vs)

\* one whole process_message call run alone on state st
process_message_alone(st, vs, kb, message, intent, video_ok) ==
  IF IsReset(message) THEN Done(reset(st), WELCOME_MESSAGE, vs)
  ELSE run_handler(st.stage, st, message, IntentFor(message, intent), kb, vs, video_ok)

\* the user whose conversation the threads call into
Caller == "alice"

\* bot.py:53: a thread enters process_message and fetches the user's state
\* object, which get_state creates and stores if there is none; the thread
\* that enters first is called thread 1
Enter(t, inp, video_ok) ==
  /\ manager = "up"
  /\ calls[t].pc = "idle"
  /\ t = 1 \/ calls[1].pc # "idle"
  /\ base' = IF \A s \in Threads : calls[s].pc = "idle"
             THEN [st |-> get_state(states, Caller), vs |-> video_segments]
             ELSE base
  /\ states' = SetState(states, Caller, get_state(states, Caller))
  /\ calls' = [calls EXCEPT ![t] =
                 [Idle EXCEPT !.pc = "entered", !.message = inp.message,
                              !.intent = inp.intent, !.video_ok = video_ok]]
  /\ UNCHANGED <<knowledge_base, video_segments, response, storage_path, storage, manager>>

\* bot.py:56-59: the reset command, run to its return
ResetCall(t) ==
  /\ calls[t].pc = "entered"
  /\ IsReset(calls[t].message)
  /\ states' = SetState(states, Caller, reset(states[Caller]))
  /\ \E write_ok \in WriteOutcomes : SaveAndReturn(WELCOME_MESSAGE, write_ok)
  /\ calls' = [calls EXCEPT ![t].pc = "returned", ![t].result = response']
  /\ UNCHANGED <<knowledge_base, video_segments, storage_path, manager, base>>

\* bot.py:66-83: the elif chain reads state.stage and picks the handler
Dispatch(t) ==
  /\ calls[t].pc = "entered"
  /\ ~IsReset(calls[t].message)
  /\ calls' = [calls EXCEPT ![t].pc = "dispatched", ![t].stage = states[Caller].stage]
  /\ UNCHANGED <<knowledge_base, states, video_segments, response,
                 storage_path, storage, manager, base>>

\* bot.py:563-564: in the next-step branch total_steps is computed and the
\* left-hand side of state.current_step += 1 is read
LoadStep(t) ==
  LET c == calls[t] IN
  /\ c.pc = "dispatched"
  /\ c.stage = INSTALLATION_STEPS
  /\ StepsTakesNext(c.message, IntentFor(c.message, c.intent))
  /\ calls' = [calls EXCEPT
                 ![t].pc = "loaded",
                 ![t].total_steps = get_total_steps(knowledge_base,
                                                    states[Caller].installation_method),
                 ![t].loaded = states[Caller].current_step]
  /\ UNCHANGED <<knowledge_base, states, video_segments, response,
                 storage_path, storage, manager, base>>

\* the rest of the call: the handler body on the shared state object, then
\* save_state and the return (bot.py:89-92); a raising handler skips the save
Return(t, r) ==
  /\ Len(r.st.issues) <= MaxIssues
  /\ states' = SetState(states, Caller, r.st)
  /\ video_segments' = r.vs
  /\ IF r.exc
     THEN /\ response' = [resp |-> r.resp, exc |-> TRUE]
          /\ storage' = storage
     ELSE \E write_ok \in WriteOutcomes : SaveAndReturn(r.resp, write_ok)
  /\ calls' = [calls EXCEPT ![t].pc = "returned", ![t].result = response']
  /\ UNCHANGED <<knowledge_base, storage_path, manager, base>>

\* a handler that was picked runs on the state as it is now
RunHandler(t) ==
  LET c == calls[t] IN
  /\ c.pc = "dispatched"
  /\ ~(c.stage = INSTALLATION_STEPS
         /\ StepsTakesNext(c.message, IntentFor(c.message, c.intent)))
  /\ \E r \in {run_handler(c.stage, states[Caller], c.message,
                           IntentFor(c.message, c.intent), knowledge_base,
                           video_segments, c.video_ok)} : Return(t, r)

\* bot.py:564-574: the value read is incremented and written back
StoreStep(t) ==
  LET c == calls[t] IN
  /\ c.pc = "loaded"
  /\ \E r \in {next_step(states[Caller], c.total_steps, c.loaded,
                         knowledge_base, video_segments)} : Return(t, r)

\* no call is in flight or has been made by a thread
Quiet == \A t \in Threads : calls[t].pc = "idle"

\* The pairs two threads send for one user: the scripted answer of each
\* stage, a forward signal and a help request during the steps, and a reset.
ConcInputs(stage) ==
  CASE stage = WELCOME -> Plain({Msg.hello})
    [] stage = MACHINE_SELECTION -> Plain({Msg.fan})
    [] stage = CONFIGURATION_SELECTION -> Plain({Msg.belt})
    [] stage = ADDITIONAL_INFO -> Plain({Msg.center_1750})
    [] stage = SENSOR_COUNT -> Plain({NumMsg(3)})
    [] stage = RECOMMENDATION -> Plain({Msg.general, Msg.yes})
    [] stage = INSTALLATION_START -> Plain({Msg.yes, Msg.step_by_step})
    [] stage = INSTALLATION_STEPS -> Plain({Msg.next, Msg.help, Msg.reset})
    [] OTHER -> Plain({Msg.yes})

\* one user's conversation, into which two threads call process_message at
\* the same time
NextConc ==
  \/ Quiet /\ \E inp \in ResetInputs : Reset(Caller, inp.message)
  \/ Quiet /\ \E inp \in ConcInputs(WELCOME) :
       HandleWelcome(Caller, inp.message, inp.intent)
  \/ Quiet /\ \E inp \in ConcInputs(MACHINE_SELECTION) :
       HandleMachineSelection(Caller, inp.message, inp.intent)
  \/ Quiet /\ \E inp \in ConcInputs(CONFIGURATION_SELECTION) :
       HandleConfiguration(Caller, inp.message, inp.intent)
  \/ Quiet /\ \E inp \in ConcInputs(ADDITIONAL_INFO) :
       HandleAdditionalInfo(Caller, inp.message, inp.intent)
  \/ Quiet /\ \E inp \in ConcInputs(SENSOR_COUNT) :
       HandleSensorCount(Caller, inp.message, inp.intent)
  \/ Quiet /\ \E inp \in ConcInputs(RECOMMENDATION) :
       HandleRecommendation(Caller, inp.message, inp.intent)
  \/ Quiet /\ \E inp \in ConcInputs(INSTALLATION_START) :
       HandleInstallationStart(Caller, inp.message, inp.intent)
  \/ Quiet /\ \E inp \in ConcInputs(INSTALLATION_STEPS) :
       HandleInstallationSteps(Caller, inp.message, inp.intent)
  \/ Quiet /\ \E inp \in ConcInputs(INSTALLATION_COMPLETE) :
       HandleInstallationComplete(Caller, inp.message, inp.intent)
  \/ \E t \in Threads : \E inp \in ConcInputs(Stage(Caller)) : Enter(t, inp, TRUE)
  \/ \E t \in Threads : ResetCall(t)
  \/ \E t \in Threads : Dispatch(t)
  \/ \E t \in Threads : LoadStep(t)
  \/ \E t \in Threads : RunHandler(t)
  \/ \E t \in Threads : StoreStep(t)

SpecConc == Init /\ [][NextConc]_vars

\* ------------------------------------------------------- persistence
\* StateManager._load_states: a missing file and one that is not JSON are
\* caught and leave the manager empty; for each stored user it calls ConversationState.from_dict,
\* which the class does not define, and the AttributeError is not among the
\* exceptions it catches
load_states(file) ==
  IF ~file.exists \/ DOMAIN file.data = {}
  THEN [states |-> << >>, exc |-> FALSE, resp |-> Resp("NONE")]
  ELSE [states |-> << >>, exc |-> TRUE, resp |-> Resp("AttributeError")]

\* the process is started again: InstallationBot.__init__ constructs a new
\* StateManager(state_storage_path), whose constructor loads the file
Restart ==
  /\ \A t \in Threads : calls[t].pc = "idle"
  /\ \E r \in {IF Truthy(storage_path) THEN load_states(storage)
               ELSE load_states(NoFile)} :
       /\ manager' = IF r.exc THEN "failed" ELSE "up"
       /\ states' = r.states
       /\ response' = [resp |-> r.resp, exc |-> r.exc]
  /\ video_segments' = NoSegments
  /\ UNCHANGED <<knowledge_base, storage_path, storage, calls, base>>

\* a bot constructed with a state storage path
InitPersist == InitBot(PyStr("states.json"))

\* one user of a bot that persists its states, and restarts of the process
NextPersist ==
  \/ \E inp \in ResetInputs : Reset("alice", inp.message)
  \/ \E inp \in InstallInputs(WELCOME) :
       HandleWelcome("alice", inp.message, inp.intent)
  \/ \E inp \in InstallInputs(MACHINE_SELECTION) :
       HandleMachineSelection("alice", inp.message, inp.intent)
  \/ \E inp \in InstallInputs(CONFIGURATION_SELECTION) :
       HandleConfiguration("alice", inp.message, inp.intent)
  \/ \E inp \in InstallInputs(ADDITIONAL_INFO) :
       HandleAdditionalInfo("alice", inp.message, inp.intent)
  \/ \E inp \in InstallInputs(SENSOR_COUNT) :
       HandleSensorCount("alice", inp.message, inp.intent)
  \/ \E inp \in InstallInputs(RECOMMENDATION) :
       HandleRecommendation("alice", inp.message, inp.intent)
  \/ \E inp \in InstallInputs(INSTALLATION_START) :
       HandleInstallationStart("alice", inp.message, inp.intent)
  \/ \E inp \in InstallInputs(INSTALLATION_STEPS) :
       HandleInstallationSteps("alice", inp.message, inp.intent)
  \/ \E inp \in InstallInputs(INSTALLATION_COMPLETE) :
       HandleInstallationComplete("alice", inp.message, inp.intent)
  \/ Restart

SpecPersist == InitPersist /\ [][NextPersist]_vars


\* ------------------------------------------------------- malformed intents
\* JSON objects the model may answer with that do not have the shape the
\* prompt of _get_intent_with_llm asks for
\* a "primary" that is not a string, "entities" that is a string, a
\* "number" entity that is a string, an "is_affirmative" that is a string
MalformedIntents ==
  {[NoIntent EXCEPT !.present = TRUE, !.has_primary = TRUE, !.primary_is_str = FALSE],
   IntentEntities("str", << >>),
   IntentEntities("dict", << Entity("number", PyStr("3")) >>),
   [NoIntent EXCEPT !.present = TRUE, !.has_aff = TRUE, !.aff = PyStr("false")]}

\* The pairs sent when the scripted answers are mixed with a message no
\* handler's pattern matching understands, sent with each malformed intent.
IntentInputs(stage) ==
  ConcInputs(stage) \cup {Input(Msg.hello, i) : i \in MalformedIntents}

\* one user, the extractor answering with malformed intents
NextIntent ==
  \/ \E inp \in ResetInputs : Reset("alice", inp.message)
  \/ \E inp \in IntentInputs(WELCOME) :
       HandleWelcome("alice", inp.message, inp.intent)
  \/ \E inp \in IntentInputs(MACHINE_SELECTION) :
       HandleMachineSelection("alice", inp.message, inp.intent)
  \/ \E inp \in IntentInputs(CONFIGURATION_SELECTION) :
       HandleConfiguration("alice", inp.message, inp.intent)
  \/ \E inp \in IntentInputs(ADDITIONAL_INFO) :
       HandleAdditionalInfo("alice", inp.message, inp.intent)
  \/ \E inp \in IntentInputs(SENSOR_COUNT) :
       HandleSensorCount("alice", inp.message, inp.intent)
  \/ \E inp \in IntentInputs(RECOMMENDATION) :
       HandleRecommendation("alice", inp.message, inp.intent)
  \/ \E inp \in IntentInputs(INSTALLATION_START) :
       HandleInstallationStart("alice", inp.message, inp.intent)
  \/ \E inp \in IntentInputs(INSTALLATION_STEPS) :
       HandleInstallationSteps("alice", inp.message, inp.intent)
  \/ \E inp \in IntentInputs(INSTALLATION_COMPLETE) :
       HandleInstallationComplete("alice", inp.message, inp.intent)

SpecIntent == Init /\ [][NextIntent]_vars


\* ------------------------------------------------------- scripted users
\* three users of one bot, one per machine type
ScriptUsers == {"alice", "bob", "carol"}

MachineMessage(user_id) ==
  CASE user_id = "alice" -> Msg.fan
    [] user_id = "bob" -> Msg.motor
    [] OTHER -> Msg.pump

\* The message a user sends next when following the prompts: the machine,
\* a configuration, orientation and speed, three sensors, the general
\* target, then yes and next until the installation is complete.
ScriptMessage(user_id) ==
  LET st == get_state(states, user_id) IN
  CASE st.stage = WELCOME -> Msg.hello
    [] st.stage = MACHINE_SELECTION -> MachineMessage(user_id)
    [] st.stage = CONFIGURATION_SELECTION -> Msg.belt
    [] st.stage = ADDITIONAL_INFO -> Msg.center_1750
    [] st.stage = SENSOR_COUNT -> NumMsg(3)
    [] st.stage = RECOMMENDATION ->
         IF st.monitoring_target = None THEN Msg.general ELSE Msg.yes
    [] st.stage = INSTALLATION_STEPS -> Msg.next
    [] OTHER -> Msg.yes

\* users following the prompts, the intent extractor absent
NextScript ==
  \/ \E u \in ScriptUsers : HandleWelcome(u, ScriptMessage(u), NoIntent)
  \/ \E u \in ScriptUsers : HandleMachineSelection(u, ScriptMessage(u), NoIntent)
  \/ \E u \in ScriptUsers : HandleConfiguration(u, ScriptMessage(u), NoIntent)
  \/ \E u \in ScriptUsers : HandleAdditionalInfo(u, ScriptMessage(u), NoIntent)
  \/ \E u \in ScriptUsers : HandleSensorCount(u, ScriptMessage(u), NoIntent)
  \/ \E u \in ScriptUsers : HandleRecommendation(u, ScriptMessage(u), NoIntent)
  \/ \E u \in ScriptUsers : HandleInstallationStart(u, ScriptMessage(u), NoIntent)
  \/ \E u \in ScriptUsers : HandleInstallationSteps(u, ScriptMessage(u), NoIntent)
  \/ \E u \in ScriptUsers : HandleInstallationComplete(u, ScriptMessage(u), NoIntent)

\* the bot has loaded the knowledge base kb_builder writes
InitScript == Init /\ knowledge_base = KB_Rich

\* some user always goes on sending the next message of the script
SpecScript == InitScript /\ [][NextScript]_vars /\ WF_vars(NextScript)


\* ------------------------------------------------------- corrupted stage
\* something outside the handlers leaves a stage value in the user's state
\* that is not a member of ConversationStage
Corrupt(user_id) ==
  /\ user_id \in DOMAIN states
  /\ states[user_id].stage \in 0..(NumStages - 1)
  /\ states' = SetState(states, user_id, [states[user_id] EXCEPT !.stage = UnknownStage])
  /\ UNCHANGED <<knowledge_base, video_segments, response, storage_path, storage,
                 manager, calls, base>>

\* what a conversation with a corrupted stage is sent
CorruptInputs == OffScript \cup Plain({Msg.yes, Msg.fan, Msg.next}) \cup ResetInputs

\* one user whose state may be corrupted at any time
NextCorrupt ==
  \/ \E inp \in ResetInputs : Reset("alice", inp.message)
  \/ \E inp \in InstallInputs(WELCOME) :
       HandleWelcome("alice", inp.message, inp.intent)
  \/ \E inp \in InstallInputs(MACHINE_SELECTION) :
       HandleMachineSelection("alice", inp.message, inp.intent)
  \/ \E inp \in InstallInputs(CONFIGURATION_SELECTION) :
       HandleConfiguration("alice", inp.message, inp.intent)
  \/ \E inp \in InstallInputs(ADDITIONAL_INFO) :
       HandleAdditionalInfo("alice", inp.message, inp.intent)
  \/ \E inp \in InstallInputs(SENSOR_COUNT) :
       HandleSensorCount("alice", inp.message, inp.intent)
  \/ \E inp \in InstallInputs(RECOMMENDATION) :
       HandleRecommendation("alice", inp.message, inp.intent)
  \/ \E inp \in InstallInputs(INSTALLATION_START) :
       HandleInstallationStart("alice", inp.message, inp.intent)
  \/ \E inp \in InstallInputs(INSTALLATION_STEPS) :
       HandleInstallationSteps("alice", inp.message, inp.intent)
  \/ \E inp \in InstallInputs(INSTALLATION_COMPLETE) :
       HandleInstallationComplete("alice", inp.message, inp.intent)
  \/ \E inp \in CorruptInputs :
       HandleUnknownStage("alice", inp.message, inp.intent)
  \/ Corrupt("alice")

SpecCorrupt == Init /\ [][NextCorrupt]_vars

\* ------------------------------------------------------- two conversations
\* two users of one bot, each through all nine stages and resets
NextIsolated ==
  \/ \E u \in Users : \E inp \in ResetInputs : Reset(u, inp.message)
  \/ \E u \in Users : \E inp \in ConcInputs(WELCOME) :
       HandleWelcome(u, inp.message, inp.intent)
  \/ \E u \in Users : \E inp \in ConcInputs(MACHINE_SELECTION) :
       HandleMachineSelection(u, inp.message, inp.intent)
  \/ \E u \in Users : \E inp \in ConcInputs(CONFIGURATION_SELECTION) :
       HandleConfiguration(u, inp.message, inp.intent)
  \/ \E u \in Users : \E inp \in ConcInputs(ADDITIONAL_INFO) :
       HandleAdditionalInfo(u, inp.message, inp.intent)
  \/ \E u \in Users : \E inp \in ConcInputs(SENSOR_COUNT) :
       HandleSensorCount(u, inp.message, inp.intent)
  \/ \E u \in Users : \E inp \in ConcInputs(RECOMMENDATION) :
       HandleRecommendation(u, inp.message, inp.intent)
  \/ \E u \in Users : \E inp \in ConcInputs(INSTALLATION_START) :
       HandleInstallationStart(u, inp.message, inp.intent)
  \/ \E u \in Users : \E inp \in ConcInputs(INSTALLATION_STEPS) :
       HandleInstallationSteps(u, inp.message, inp.intent)
  \/ \E u \in Users : \E inp \in ConcInputs(INSTALLATION_COMPLETE) :
       HandleInstallationComplete(u, inp.message, inp.intent)

SpecIsolated == Init /\ [][NextIsolated]_vars

\* ------------------------------------------------------- entities by intent
\* The pairs sent when the extractor answers with well-formed entities: an
\* entity alone, an entity that differs from what the words of the message
\* give, values outside the ones the prompts offer, and the scripted answers
\* without an intent.
EntityInputs(stage) ==
  LET Dict(key, value) == IntentEntities("dict", << Entity(key, value) >>)
      List(key, v1, v2) == IntentEntities("list", << Entity(key, v1), Entity(key, v2) >>)
  IN (IF stage = INSTALLATION_STEPS THEN Plain({Msg.next}) ELSE ConcInputs(stage)) \cup
     CASE stage = MACHINE_SELECTION ->
            {Input(Msg.hello, Dict("machine_type", PyStr("Motor"))),
             Input(Msg.motor, Dict("machine_type", PyStr("Pump"))),
             Input(Msg.hello, Dict("machine_type", PyStr("Compressor"))),
             Input(Msg.hello, List("machine_type", PyStr("Fan"), PyStr("Motor"))),
             Input(Msg.hello, NoIntent)}
       [] stage = CONFIGURATION_SELECTION ->
            {Input(Msg.hello, Dict("configuration", PyStr("Direct/Close Coupled"))),
             Input(Msg.belt, Dict("configuration", PyStr("Direct/Close Coupled"))),
             Input(Msg.hello, NoIntent)}
       [] stage = ADDITIONAL_INFO ->
            {Input(Msg.hello, Dict("orientation", PyStr("Overhung"))),
             Input(Msg.center_1750, Dict("number", PyInt(900))),
             Input(Msg.hello, Dict("number", PyInt(-5))),
             Input(Msg.hello, Dict("number", PyInt(0))),
             Input(Msg.rpm_0, NoIntent)}
       [] stage = SENSOR_COUNT ->
            {Input(Msg.sensors_3, Dict("number", PyInt(2))),
             Input(Msg.sensors_3, Dict("machine_type", PyStr("Fan"))),
             Input(Msg.hello, Dict("number", PyInt(-1))),
             Input(Msg.rpm_0, NoIntent)}
       [] stage = RECOMMENDATION ->
            {Input(Msg.hello, TargetIntent), Input(Msg.bearing, TargetIntent),
             Input(Msg.motor, NoIntent), Input(Msg.hello, NoIntent)}
       [] stage = INSTALLATION_START ->
            {Input(Msg.hello, Dict("installation_method", PyStr("Magnets"))),
             Input(Msg.epoxy, Dict("installation_method", PyStr("Magnets"))),
             Input(Msg.epoxy, NoIntent)}
       [] OTHER -> {}

\* one user, the extractor answering with entities
NextEntities ==
  \/ \E inp \in ResetInputs : Reset("alice", inp.message)
  \/ \E inp \in EntityInputs(WELCOME) :
       HandleWelcome("alice", inp.message, inp.intent)
  \/ \E inp \in EntityInputs(MACHINE_SELECTION) :
       HandleMachineSelection("alice", inp.message, inp.intent)
  \/ \E inp \in EntityInputs(CONFIGURATION_SELECTION) :
       HandleConfiguration("alice", inp.message, inp.intent)
  \/ \E inp \in EntityInputs(ADDITIONAL_INFO) :
       HandleAdditionalInfo("alice", inp.message, inp.intent)
  \/ \E inp \in EntityInputs(SENSOR_COUNT) :
       HandleSensorCount("alice", inp.message, inp.intent)
  \/ \E inp \in EntityInputs(RECOMMENDATION) :
       HandleRecommendation("alice", inp.message, inp.intent)
  \/ \E inp \in EntityInputs(INSTALLATION_START) :
       HandleInstallationStart("alice", inp.message, inp.intent)
  \/ \E inp \in EntityInputs(INSTALLATION_STEPS) :
       HandleInstallationSteps("alice", inp.message, inp.intent)
  \/ \E inp \in EntityInputs(INSTALLATION_COMPLETE) :
       HandleInstallationComplete("alice", inp.message, inp.intent)

SpecEntities == Init /\ [][NextEntities]_vars


\* ------------------------------------------------------- one bot, two methods
\* two users of one bot who answer the questions in one way, choose between
\* two installation methods and ask for steps and videos; InstallationBot has
\* one video_segments for all of them (bot.py:27-29)
NextShared ==
  \/ \E u \in Users : Reset(u, Msg.reset)
  \/ \E u \in Users : \E inp \in ConcInputs(WELCOME) :
       HandleWelcome(u, inp.message, inp.intent)
  \/ \E u \in Users : \E inp \in ConcInputs(MACHINE_SELECTION) :
       HandleMachineSelection(u, inp.message, inp.intent)
  \/ \E u \in Users : \E inp \in ConcInputs(CONFIGURATION_SELECTION) :
       HandleConfiguration(u, inp.message, inp.intent)
  \/ \E u \in Users : \E inp \in ConcInputs(ADDITIONAL_INFO) :
       HandleAdditionalInfo(u, inp.message, inp.intent)
  \/ \E u \in Users : \E inp \in ConcInputs(SENSOR_COUNT) :
       HandleSensorCount(u, inp.message, inp.intent)
  \/ \E u \in Users : \E inp \in ConcInputs(RECOMMENDATION) :
       HandleRecommendation(u, inp.message, inp.intent)
  \/ \E u \in Users : \E inp \in Plain({Msg.yes, Msg.magnet, Msg.step_by_step}) :
       HandleInstallationStart(u, inp.message, inp.intent)
  \/ \E u \in Users : \E inp \in Plain({Msg.hello, Msg.video, Msg.next}) :
       HandleInstallationSteps(u, inp.message, inp.intent)
  \/ \E u \in Users : \E inp \in ConcInputs(INSTALLATION_COMPLETE) :
       HandleInstallationComplete(u, inp.message, inp.intent)

SpecShared == Init /\ [][NextShared]_vars
\* ======================================================= properties
Alice == get_state(states, "alice")

\* C1: whatever the stage and the fields collected so far, a message equal
\* to "reset" in any letter case leaves the user's stored state equal to a
\* freshly created ConversationState and returns exactly the welcome text;
\* the handler of the current stage does not run.
C1_ResetGivesFreshState ==
  [][\A m \in ResetMessages :
       process_message("alice", m, NoIntent)
         => /\ states'["alice"] = FreshState
            /\ response' = Returned(WELCOME_MESSAGE)]_vars

\* a reset has acted in the middle of a conversation: the state is fresh
\* again while the bot still holds the video segments prepared for the
\* installation method chosen before the reset
C1_Witness ==
  /\ "alice" \in DOMAIN states
  /\ states["alice"] = FreshState
  /\ response = Returned(WELCOME_MESSAGE)
  /\ video_segments # NoSegments

\* C2: a message that is not "reset" leaves the user's stage where it was or
\* moves it to exactly the next stage of the order WELCOME .. INSTALLATION_COMPLETE:
\* the stage never decreases and never skips a stage.
C2_StageStaysOrAdvancesByOne ==
  [][\A inp \in IntakeInputs(Stage("alice")) :
       process_message("alice", inp.message, inp.intent)
         => states'["alice"].stage \in {Alice.stage, Alice.stage + 1}]_vars

\* the conversation has walked through all nine stages
C2_Witness ==
  /\ "alice" \in DOMAIN states
  /\ states["alice"].stage = INSTALLATION_COMPLETE
  /\ states["alice"].installation_complete

\* C3 (as stated): from a freshly created state the single message "fan"
\* gives machine_type "Fan", stage CONFIGURATION_SELECTION and the
\* fan-configuration prompt.
C3_FanFromFreshState ==
  [][(Alice = FreshState /\ process_message("alice", Msg.fan, NoIntent))
       => /\ states'["alice"].machine_type = PyStr("Fan")
          /\ states'["alice"].stage = CONFIGURATION_SELECTION
          /\ response'.resp.t = "FAN_CONFIGURATION_PROMPT"]_vars

\* C3 (amended): the first message to a freshly created state, "fan"
\* included, only returns the welcome text and moves the stage to
\* MACHINE_SELECTION; "fan" sent as the next message gives machine_type
\* "Fan", stage CONFIGURATION_SELECTION and the fan-configuration prompt.
C3_FanAfterWelcome ==
  [][/\ (Alice = FreshState /\ process_message("alice", Msg.fan, NoIntent))
          => /\ states'["alice"] = [FreshState EXCEPT !.stage = MACHINE_SELECTION]
             /\ response' = Returned(WELCOME_MESSAGE)
     /\ (/\ Alice = [FreshState EXCEPT !.stage = MACHINE_SELECTION]
         /\ process_message("alice", Msg.fan, NoIntent))
          => /\ states'["alice"].machine_type = PyStr("Fan")
             /\ states'["alice"].stage = CONFIGURATION_SELECTION
             /\ response' = Returned(Resp("FAN_CONFIGURATION_PROMPT"))]_vars

\* "fan" has been processed as the second message of a conversation
C3_Witness ==
  /\ "alice" \in DOMAIN states
  /\ states["alice"] = [FreshState EXCEPT !.stage = CONFIGURATION_SELECTION,
                                          !.machine_type = PyStr("Fan")]
  /\ response = Returned(Resp("FAN_CONFIGURATION_PROMPT"))

\* the message is handled by the "ready for the next step" branch of the
\* INSTALLATION_STEPS handler
HandledAsNext(inp) ==
  LET intent == IntentFor(inp.message, inp.intent) IN
  /\ ~StepsWantsVideo(inp.message, intent)
  /\ ~StepsNeedsHelp(inp.message, intent)
  /\ ~StepsWantsSupport(inp.message)
  /\ StepsWantsNext(inp.message, intent)

\* C4: in stage INSTALLATION_STEPS current_step never decreases; a message
\* handled as a forward signal increases it by exactly 1, and that message
\* moves the stage to INSTALLATION_COMPLETE and sets installation_complete
\* exactly when the incremented current_step exceeds the total step count of
\* the installation method; otherwise the stage stays INSTALLATION_STEPS.
C4_StepAdvancesByOne ==
  [][\A inp \in InstallInputs(INSTALLATION_STEPS) :
       (Stage("alice") = INSTALLATION_STEPS
          /\ process_message("alice", inp.message, inp.intent))
         => LET before == Alice
                after == states'["alice"]
                total == get_total_steps(knowledge_base, before.installation_method)
            IN /\ after.current_step.k = "int"
               /\ after.current_step.n >= before.current_step.n
               /\ IF HandledAsNext(inp)
                  THEN /\ after.current_step.n = before.current_step.n + 1
                       /\ IF after.current_step.n > total
                          THEN /\ after.stage = INSTALLATION_COMPLETE
                               /\ after.installation_complete
                          ELSE /\ after.stage = INSTALLATION_STEPS
                               /\ ~after.installation_complete
                  ELSE /\ after.current_step = before.current_step
                       /\ after.stage = INSTALLATION_STEPS
                       /\ ~after.installation_complete]_vars

\* step 6 of 6 was answered with a forward signal: current_step is 7 and the
\* installation is complete
C4_Witness ==
  /\ "alice" \in DOMAIN states
  /\ get_total_steps(knowledge_base, states["alice"].installation_method) = 6
  /\ states["alice"].current_step = PyInt(7)
  /\ states["alice"].installation_complete
  /\ states["alice"].stage = INSTALLATION_COMPLETE
  /\ response.resp.t = "INSTALLATION_COMPLETE_MESSAGE"

\* C5 (as stated): current_step is unset before INSTALLATION_STEPS and, once
\* set, lies in 1 .. total_steps + 1 for the total step count of the state's
\* installation method, for every knowledge base.
C5_CurrentStepWithinTotal ==
  \A u \in DOMAIN states :
    LET st == states[u]
        total == get_total_steps(knowledge_base, st.installation_method)
    IN /\ st.stage < INSTALLATION_STEPS => st.current_step = None
       /\ st.current_step # None
            => /\ st.current_step.k = "int"
               /\ 1 <= st.current_step.n
               /\ st.current_step.n <= total + 1

\* the priority lists of the two known configurations
BeltDrivenPriority ==
  << "Motor Drive-End (DE) - HIGHEST PRIORITY",
     "Motor Non-Drive-End (NDE) - For motors >= 150 hp",
     "Belt-Side bearing",
     "Fan-Side bearing" >>

DirectCoupledPriority ==
  << "Motor Drive-End (DE) - HIGHEST PRIORITY",
     "Motor Non-Drive-End (NDE) - For motors >= 150 hp",
     "Fan shaft bearings (if accessible)" >>

KnownConfiguration(st) ==
  st.configuration \in {PyStr("Belt Driven"), PyStr("Direct/Close Coupled")}

\* the RECOMMENDATION handler has computed a placement for this state
PlacementComputed(st) ==
  \/ st.stage > RECOMMENDATION
  \/ st.stage = RECOMMENDATION
       /\ (st.monitoring_target # None \/ st.recommended_placement # << >>)

\* C6: the placement list computed in the RECOMMENDATION stage is, for
\* sensor_count n >= 1, the first min(n, 4) entries of the Belt Driven
\* priority list, respectively the first min(n, 3) entries of the
\* Direct/Close Coupled list; Motor Drive-End is first and the order fixed.
C6_PlacementIsPriorityPrefix ==
  \A u \in DOMAIN states :
    LET st == states[u]
        n == st.sensor_count.n
    IN (KnownConfiguration(st) /\ PlacementComputed(st) /\ n >= 1)
         => /\ st.configuration = PyStr("Belt Driven")
                 => st.recommended_placement
                      = SubSeq(BeltDrivenPriority, 1, IF n <= 4 THEN n ELSE 4)
            /\ st.configuration = PyStr("Direct/Close Coupled")
                 => st.recommended_placement
                      = SubSeq(DirectCoupledPriority, 1, IF n <= 3 THEN n ELSE 3)
            /\ st.recommended_placement[1] = "Motor Drive-End (DE) - HIGHEST PRIORITY"

\* a Belt Driven placement was computed with more sensors than locations
C6_Witness ==
  /\ "alice" \in DOMAIN states
  /\ states["alice"].configuration = PyStr("Belt Driven")
  /\ states["alice"].sensor_count = PyInt(5)
  /\ states["alice"].recommended_placement = BeltDrivenPriority
  /\ response.resp.t = "RECOMMENDATION_TEMPLATE"

\* two conversations of the bot that both hold a computed placement for a
\* known configuration and a sensor count in 1..5
BothComputed(sts, u, v) ==
  /\ u \in DOMAIN sts /\ v \in DOMAIN sts
  /\ KnownConfiguration(sts[u]) /\ PlacementComputed(sts[u])
  /\ KnownConfiguration(sts[v]) /\ PlacementComputed(sts[v])
  /\ sts[u].sensor_count.n \in 1..5 /\ sts[v].sensor_count.n \in 1..5
  /\ sts[u].configuration = sts[v].configuration

\* C7: for the two known configurations and sensor_count in 1..5 the
\* recommendation list depends on (configuration, sensor_count) only: two
\* conversations with the same pair hold the same list and asking again in
\* one conversation yields the same list; its length does not decrease as
\* sensor_count increases and never exceeds 3 (Direct/Close Coupled) or 4
\* (Belt Driven).
C7_PlacementDeterministicMonotoneCapped ==
  [][/\ \A u, v \in Users :
          BothComputed(states', u, v)
            => LET a == states'[u]
                   b == states'[v]
               IN /\ a.sensor_count = b.sensor_count
                       => a.recommended_placement = b.recommended_placement
                  /\ a.sensor_count.n <= b.sensor_count.n
                       => Len(a.recommended_placement) <= Len(b.recommended_placement)
                  /\ Len(a.recommended_placement)
                       <= IF a.configuration = PyStr("Belt Driven") THEN 4 ELSE 3
     /\ \A u \in DOMAIN states :
          (/\ states[u].recommended_placement # << >>
           /\ states'[u].recommended_placement # << >>
           /\ states'[u].configuration = states[u].configuration
           /\ states'[u].sensor_count = states[u].sensor_count)
            => states'[u].recommended_placement = states[u].recommended_placement]_vars

\* two users with different machines and the same configuration hold
\* placements for 2 and for 5 sensors, and the second user's placement has
\* just been computed again
C7_Witness ==
  /\ BothComputed(states, "alice", "bob")
  /\ states["alice"].machine_type # states["bob"].machine_type
  /\ states["alice"].configuration = PyStr("Direct/Close Coupled")
  /\ states["alice"].sensor_count = PyInt(2)
  /\ states["bob"].sensor_count = PyInt(5)
  /\ Len(states["alice"].recommended_placement) = 2
  /\ Len(states["bob"].recommended_placement) = 3
  /\ response.resp.t = "RECOMMENDATION_TEMPLATE"
  /\ response.resp.n = 5

\* C8: in stage RECOMMENDATION with monitoring_target unset, any message
\* leaves monitoring_target set (the extracted target, or "General" for a
\* negative message or one naming no target), the recommendation is computed
\* and the stage stays RECOMMENDATION; with "Belt Driven", 3 sensors and the
\* message "general" the target is "General" and the response lists exactly
\* Motor DE, Motor NDE and Belt-Side bearing.
C8_RecommendationSetsTarget ==
  [][\A inp \in IntakeInputs(RECOMMENDATION) :
       (/\ Stage("alice") = RECOMMENDATION
        /\ Alice.monitoring_target = None
        /\ process_message("alice", inp.message, inp.intent))
         => LET before == Alice
                after == states'["alice"]
                extracted == Layered(IntentFor(inp.message, inp.intent), "monitoring_target",
                                     extract_monitoring_target(inp.message))
            IN /\ after.monitoring_target # None
               /\ after.monitoring_target =
                    IF is_negative(inp.message) \/ extracted = None
                    THEN PyStr("General") ELSE extracted
               /\ after.stage = RECOMMENDATION
               /\ ~response'.exc
               /\ IF KnownConfiguration(before)
                  THEN /\ response'.resp.t = "RECOMMENDATION_TEMPLATE"
                       /\ response'.resp.recs = after.recommended_placement
                       /\ after.recommended_placement # << >>
                  ELSE response'.resp.t = "RECOMMENDATION_GENERIC"
               /\ (/\ before.configuration = PyStr("Belt Driven")
                   /\ before.sensor_count = PyInt(3)
                   /\ inp.message = Msg.general)
                    => /\ after.monitoring_target = PyStr("General")
                       /\ response'.resp.recs = SubSeq(BeltDrivenPriority, 1, 3)]_vars

\* the scenario of the claim has just happened
C8_Witness ==
  /\ "alice" \in DOMAIN states
  /\ states["alice"].stage = RECOMMENDATION
  /\ states["alice"].configuration = PyStr("Belt Driven")
  /\ states["alice"].sensor_count = PyInt(3)
  /\ states["alice"].monitoring_target = PyStr("General")
  /\ response.resp.t = "RECOMMENDATION_TEMPLATE"
  /\ response.resp.recs = SubSeq(BeltDrivenPriority, 1, 3)

\* what the two calls left behind: the user's state, the bot's video
\* segments and each caller's response
Outcome ==
  [st |-> states[Caller], vs |-> video_segments,
   result |-> [t \in Threads |-> calls[t].result]]

\* what the two calls leave behind when thread a's call runs alone from the
\* state the calls found and thread b's call runs alone after it
SerialOutcome(a, b) ==
  LET ra == process_message_alone(base.st, base.vs, knowledge_base, calls[a].message,
                                  calls[a].intent, calls[a].video_ok)
      rb == process_message_alone(ra.st, ra.vs, knowledge_base, calls[b].message,
                                  calls[b].intent, calls[b].video_ok)
  IN [st |-> rb.st, vs |-> rb.vs,
      result |-> [t \in Threads |->
                    IF t = a THEN [resp |-> ra.resp, exc |-> ra.exc]
                    ELSE [resp |-> rb.resp, exc |-> rb.exc]]]

\* C9: when two process_message calls for the same user are issued
\* concurrently, the final state and the two responses equal those of one of
\* the two serial orders (no current_step increment is lost, the stage is
\* not advanced twice on one stale dispatch).
C9_ConcurrentCallsSerializable ==
  (\A t \in Threads : calls[t].pc = "returned")
    => Outcome \in {SerialOutcome(1, 2), SerialOutcome(2, 1)}

\* C10: with a storage path given, a StateManager constructed afterwards on
\* the same path (a process restart) returns for every user whose state was
\* saved a state equal in every field to the saved one.
C10_SavedStateSurvivesRestart ==
  [][(Truthy(storage_path) /\ Restart)
       => \A u \in DOMAIN storage.data :
            /\ manager' = "up"
            /\ to_dict(get_state(states', u)) = storage.data[u]]_vars

\* C11: if writing the state file fails during save_state, the failure does
\* not reach the caller: process_message returns the handler's response and
\* the user's in-memory state keeps the handler's result.
C11_SaveFailureNotSurfaced ==
  [][\A inp \in ResetInputs \cup UNION {InstallInputs(s) : s \in 0..(NumStages - 1)} :
       (/\ Truthy(storage_path)
        /\ process_message("alice", inp.message, inp.intent)
        /\ storage' # save_states(states'))
         => \E video_ok \in BOOLEAN :
              LET r == process_message_alone(Alice, video_segments, knowledge_base,
                                             inp.message, inp.intent, video_ok)
              IN r.exc \/ (/\ states'["alice"] = r.st
                           /\ response' = Returned(r.resp))]_vars

\* C12: for every value the intent extractor can hand to the handlers, a
\* malformed structured intent included (primary_intent not a string,
\* entities neither mapping nor list, a number entity that is not an integer,
\* is_affirmative not a boolean), process_message raises no exception and
\* the outcome is the one pattern matching on the raw message gives.
C12_MalformedIntentIgnored ==
  [][\A inp \in {Input(Msg.hello, i) : i \in MalformedIntents} :
       process_message("alice", inp.message, inp.intent)
         => \E video_ok \in BOOLEAN :
              LET r == process_message_alone(Alice, video_segments, knowledge_base,
                                             inp.message, NoIntent, video_ok)
              IN /\ ~response'.exc
                 /\ states'["alice"] = r.st
                 /\ response' = Returned(r.resp)]_vars

\* C13: in MACHINE_SELECTION, CONFIGURATION_SELECTION, ADDITIONAL_INFO and
\* SENSOR_COUNT, when no intent is supplied and the required entity cannot
\* be extracted from the message, the handler returns the stage's clarifying
\* error prompt, raises nothing and leaves every field of the state unchanged.
C13_UnrecognizedInputReprompts ==
  [][LET Extracted(st, message) ==
          CASE st.stage = MACHINE_SELECTION -> extract_machine_type(message)
            [] st.stage = CONFIGURATION_SELECTION -> extract_configuration(message)
            [] st.stage = ADDITIONAL_INFO ->
                 IF ~Truthy(st.orientation) THEN extract_orientation(message)
                 ELSE extract_rpm(message)
            [] OTHER -> extract_number(message)
        ErrorPrompt(st) ==
          CASE st.stage = MACHINE_SELECTION -> Resp("MACHINE_TYPE_ERROR")
            [] st.stage = CONFIGURATION_SELECTION ->
                 [Resp("CONFIGURATION_ERROR") EXCEPT !.arg = st.machine_type]
            [] st.stage = ADDITIONAL_INFO ->
                 IF ~Truthy(st.orientation)
                 THEN [Resp("ORIENTATION_ERROR") EXCEPT !.arg = st.machine_type]
                 ELSE Resp("RPM_ERROR")
            [] OTHER -> Resp("SENSOR_COUNT_ERROR")
      IN
      \A stage \in {MACHINE_SELECTION, CONFIGURATION_SELECTION, ADDITIONAL_INFO,
                   SENSOR_COUNT} :
       \A inp \in IntakeInputs(stage) :
         (/\ Stage("alice") = stage
          /\ inp.intent = NoIntent
          /\ ~Truthy(Extracted(Alice, inp.message))
          /\ process_message("alice", inp.message, inp.intent))
           => /\ states'["alice"] = Alice
              /\ response' = Returned(ErrorPrompt(Alice))]_vars

\* a message without a number was just answered with the RPM error prompt
C13_Witness ==
  /\ Stage("alice") = ADDITIONAL_INFO
  /\ Truthy(Alice.orientation)
  /\ Alice.rpm = None
  /\ response = Returned(Resp("RPM_ERROR"))

\* C14: for every stage handler, with intent absent and a message the
\* handler does not recognise, calling the handler repeatedly with that same
\* message returns the same re-prompt text on every call and never changes
\* state.stage.
C14_RepromptIdempotent ==
  \A inp \in OffScript :
    ("alice" \in DOMAIN states /\ Alice.stage # WELCOME)
      => LET r1 == process_message_alone(Alice, video_segments, knowledge_base,
                                         inp.message, NoIntent, TRUE)
             r2 == process_message_alone(r1.st, r1.vs, knowledge_base,
                                         inp.message, NoIntent, TRUE)
         IN /\ r1.st.stage = Alice.stage
            /\ r2.st.stage = Alice.stage
            /\ r2.resp = r1.resp

\* C15: when the knowledge base has no step data for the selected method,
\* step guidance is the generic continue-installation message, the total
\* step count is 6, and the stage reaches INSTALLATION_COMPLETE on exactly
\* the 6th forward signal counted from step 1 (current_step 7).
C15_MissingStepDataDefaultsToSix ==
  \A u \in DOMAIN states :
    LET st == states[u] IN
    (st.stage \in {INSTALLATION_STEPS, INSTALLATION_COMPLETE}
       /\ GuidanceSteps(knowledge_base.machines, st.installation_method, << >>) = << >>)
      => /\ get_total_steps(knowledge_base, st.installation_method) = 6
         /\ \A n \in 1..8 :
              get_step_guidance(knowledge_base, video_segments,
                                st.installation_method, n).title = "Continue Installation"
         /\ st.stage = INSTALLATION_STEPS => st.current_step.n \in 1..6
         /\ st.stage = INSTALLATION_COMPLETE => st.current_step.n = 7

\* C16: with the intent extractor absent, for each machine type Fan, Motor
\* and Pump a finite sequence of messages takes a fresh conversation through
\* all nine stages in order (no stage is skipped) to INSTALLATION_COMPLETE
\* with installation_complete = true.
C16_PatternMatchingCompletes ==
  /\ [][\A u \in ScriptUsers :
          get_state(states', u).stage \in {Stage(u), Stage(u) + 1}]_vars
  /\ <>(\A u \in ScriptUsers :
          LET machine_type == [alice |-> "Fan", bob |-> "Motor", carol |-> "Pump"] IN
          /\ u \in DOMAIN states
          /\ states[u].stage = INSTALLATION_COMPLETE
          /\ states[u].installation_complete
          /\ states[u].machine_type = PyStr(machine_type[u]))

\* the three conversations have reached the end, one per machine type
C16_Witness ==
  /\ ScriptUsers \subseteq DOMAIN states
  /\ \A u \in ScriptUsers :
       /\ states[u].stage = INSTALLATION_COMPLETE
       /\ states[u].installation_complete
       /\ states[u].current_step.n >= 1
  /\ states["alice"].machine_type = PyStr("Fan")
  /\ states["bob"].machine_type = PyStr("Motor")
  /\ states["carol"].machine_type = PyStr("Pump")

\* C17: advance_stage called on a state whose stage is INSTALLATION_COMPLETE
\* leaves the stage and every other field unchanged; a handler picked on a
\* stale stage that calls it on a completed conversation leaves the stage at
\* INSTALLATION_COMPLETE.
C17_AdvancePastLastStageIsNoOp ==
  [][/\ \A u \in DOMAIN states :
          states[u].stage = INSTALLATION_COMPLETE
            => advance_stage(states[u]) = states[u]
     /\ \A t \in Threads :
          (/\ calls[t].pc = "loaded"
           /\ states[Caller].stage = INSTALLATION_COMPLETE
           /\ StoreStep(t))
            => states'[Caller].stage = INSTALLATION_COMPLETE]_vars

\* two calls dispatched on INSTALLATION_STEPS both completed the
\* installation: the second advance_stage ran on INSTALLATION_COMPLETE
C17_Witness ==
  /\ \A t \in Threads :
       /\ calls[t].pc = "returned"
       /\ calls[t].stage = INSTALLATION_STEPS
       /\ calls[t].result = Returned([Resp("INSTALLATION_COMPLETE_MESSAGE") EXCEPT
                                        !.arg = states[Caller].installation_method])
  /\ states[Caller].stage = INSTALLATION_COMPLETE

\* C18: once the stage is INSTALLATION_COMPLETE, every message other than
\* "reset" leaves stage, current_step, installation_complete and all
\* collected facts unchanged; only issues can change, and it can only grow.
C18_CompleteIsTerminal ==
  [][\A inp \in InstallInputs(INSTALLATION_COMPLETE) :
       (/\ Stage("alice") = INSTALLATION_COMPLETE
        /\ process_message("alice", inp.message, inp.intent))
         => LET after == states'["alice"] IN
            /\ [after EXCEPT !.issues = Alice.issues] = Alice
            /\ Len(Alice.issues) <= Len(after.issues)
            /\ SubSeq(after.issues, 1, Len(Alice.issues)) = Alice.issues]_vars

\* an issue was reported after the installation was complete
C18_Witness ==
  /\ Stage("alice") = INSTALLATION_COMPLETE
  /\ Alice.installation_complete
  /\ Alice.issues = << Issue("Issue after installation", 0) >>
  /\ response.resp.t = "INSTALLATION_ISSUE_MESSAGE"

\* C19 as stated: whatever message is processed for a state whose stage is
\* none of the nine defined stages, process_message returns the generic
\* start-over error text and the user's state afterwards is a fresh one.
C19_UnknownStageStartsOver ==
  [][\A inp \in CorruptInputs :
       (/\ Stage("alice") = UnknownStage
        /\ process_message("alice", inp.message, inp.intent))
         => /\ response' = Returned(Resp("START_OVER"))
            /\ states'["alice"] = FreshState]_vars

\* C19, amended: for a state whose stage is none of the nine defined stages
\* the user's state afterwards is a fresh one; the response is the generic
\* start-over error text for every message but the reset command, for which
\* it is the welcome text.
C19_UnknownStageStartsOverOrResets ==
  [][\A inp \in CorruptInputs :
       (/\ Stage("alice") = UnknownStage
        /\ process_message("alice", inp.message, inp.intent))
         => /\ response' = IF IsReset(inp.message) THEN Returned(WELCOME_MESSAGE)
                           ELSE Returned(Resp("START_OVER"))
            /\ states'["alice"] = FreshState]_vars

\* a conversation that had reached the installation steps and then carried an
\* unknown stage was answered with the start-over text and is fresh again
C19_Witness ==
  /\ response = Returned(Resp("START_OVER"))
  /\ video_segments # NoSegments
  /\ "alice" \in DOMAIN states
  /\ states["alice"] = FreshState

\* C20: processing a message for one user, in any stage and for the reset
\* command, leaves the state kept for every other user as it was: get_state
\* of the other user gives the same state before and after.  Stated as: a
\* step after which get_state of some user v differs is not a step of
\* process_message for any other user u, for the messages u is sent in the
\* stage u is in.
C20_OtherUsersUntouched ==
  [][\A v \in Users :
       get_state(states', v) # get_state(states, v)
         => \A u \in Users \ {v} :
              \A inp \in ResetInputs \cup ConcInputs(Stage(u)) :
                ~process_message(u, inp.message, inp.intent)]_vars

\* alice has just been reset while bob is at the second installation step
C20_Witness ==
  /\ Users \subseteq DOMAIN states
  /\ response = Returned(WELCOME_MESSAGE)
  /\ states["alice"] = FreshState
  /\ Stage("bob") = INSTALLATION_STEPS
  /\ states["bob"].current_step = PyInt(2)
  /\ states["bob"].machine_type = PyStr("Fan")

\* C21: in stage WELCOME every message other than "reset" returns the fixed
\* welcome text and moves the stage to MACHINE_SELECTION; the outcome is the
\* same for every message and no other field changes.
C21_WelcomeIsUnconditional ==
  [][\A inp \in IntakeInputs(WELCOME) :
       (/\ Stage("alice") = WELCOME
        /\ process_message("alice", inp.message, inp.intent))
         => /\ response' = Returned(WELCOME_MESSAGE)
            /\ states'["alice"] = [Alice EXCEPT !.stage = MACHINE_SELECTION]]_vars

\* the welcome text was just given to a conversation that had been reset
\* after reaching the installation
C21_Witness ==
  /\ "alice" \in DOMAIN states
  /\ states["alice"] = [FreshState EXCEPT !.stage = MACHINE_SELECTION]
  /\ response = Returned(WELCOME_MESSAGE)
  /\ video_segments # NoSegments

\* C22: in stage RECOMMENDATION with monitoring_target already set, an
\* affirmative message (by the intent's is_affirmative or by its words)
\* advances the stage to INSTALLATION_START and changes nothing else, so
\* monitoring_target and recommended_placement stay; any other message sets
\* monitoring_target back to None, returns the monitoring-target prompt and
\* leaves the stage at RECOMMENDATION.
C22_ConfirmOrReprompt ==
  [][\A inp \in IntakeInputs(RECOMMENDATION) :
       (/\ Stage("alice") = RECOMMENDATION
        /\ Truthy(Alice.monitoring_target)
        /\ process_message("alice", inp.message, inp.intent))
         => LET intent == IntentFor(inp.message, inp.intent)
                affirmative == \/ is_affirmative(inp.message)
                               \/ intent.present /\ intent.has_aff /\ Truthy(intent.aff)
            IN IF affirmative
               THEN /\ states'["alice"] = [Alice EXCEPT !.stage = INSTALLATION_START]
                    /\ response'.resp.t = "INSTALLATION_METHOD_PROMPT"
               ELSE /\ states'["alice"] = [Alice EXCEPT !.monitoring_target = None]
                    /\ response' = Returned(Resp("MONITORING_TARGET_PROMPT"))]_vars

\* a message that was not affirmative was answered with the monitoring-target
\* prompt: the target is unset again and the placement is still there
C22_Witness ==
  /\ Stage("alice") = RECOMMENDATION
  /\ Alice.monitoring_target = None
  /\ Len(Alice.recommended_placement) = 3
  /\ response = Returned(Resp("MONITORING_TARGET_PROMPT"))

\* C23: in stage ADDITIONAL_INFO a message handled while orientation is unset
\* never sets rpm and never advances the stage, even if it carries a number;
\* rpm changes only while orientation was already set; and the stage is left
\* (for SENSOR_COUNT) only by a message that supplies the RPM while
\* orientation was already set.
C23_OrientationThenRpm ==
  [][\A inp \in EntityInputs(ADDITIONAL_INFO) :
       (/\ Stage("alice") = ADDITIONAL_INFO
        /\ process_message("alice", inp.message, inp.intent))
         => LET after == states'["alice"] IN
            /\ ~Truthy(Alice.orientation)
                 => after.rpm = None /\ after.stage = ADDITIONAL_INFO
            /\ after.rpm # Alice.rpm => Truthy(Alice.orientation)
            /\ after.stage # ADDITIONAL_INFO
                 => /\ Truthy(Alice.orientation)
                    /\ after.orientation = Alice.orientation
                    /\ Truthy(after.rpm)
                    /\ after.stage = SENSOR_COUNT]_vars

\* "center hung 1750" has just set the orientation: the number in it was not
\* taken as the RPM and the stage is still ADDITIONAL_INFO
C23_Witness ==
  /\ Stage("alice") = ADDITIONAL_INFO
  /\ Alice.orientation = PyStr("Center Hung")
  /\ Alice.rpm = None
  /\ response.resp.t = "RPM_PROMPT"

\* C24: the stage moves from INSTALLATION_START to INSTALLATION_STEPS only
\* on a message handled while installation_method was already set and that
\* selects a viewing mode (the words of a full-video or step-by-step request,
\* or an affirmative); that transition sets current_step to 1 and changes
\* nothing else, with or without a full video; a message handled while
\* installation_method is unset never advances the stage.
C24_StartNeedsMethodThenMode ==
  [][\A inp \in InstallInputs(INSTALLATION_START) :
       (/\ Stage("alice") = INSTALLATION_START
        /\ process_message("alice", inp.message, inp.intent))
         => LET after == states'["alice"]
                msg == Lower(inp.message)
            IN /\ ~Truthy(Alice.installation_method) => after.stage = INSTALLATION_START
               /\ after.stage # INSTALLATION_START
                    => /\ Truthy(Alice.installation_method)
                       /\ \/ HasAny(msg, {W.full_video, W.show_video})
                          \/ HasAny(msg, {W.step_by_step, W.guide})
                          \/ is_affirmative(inp.message)
                       /\ after = [Alice EXCEPT !.stage = INSTALLATION_STEPS,
                                                !.current_step = PyInt(1)]]_vars

\* the full video was asked for and exists: the steps begin at step 1
C24_Witness ==
  /\ Stage("alice") = INSTALLATION_STEPS
  /\ Alice.current_step = PyInt(1)
  /\ video_segments.full
  /\ response.resp.t = "FULL_VIDEO_TEMPLATE"

\* C25: in stage INSTALLATION_STEPS a video request, a help request, a
\* support request and an unrecognised message leave current_step and stage
\* unchanged, also when the message carries a readiness signal ("next",
\* "yes", "ready"); only the help request changes the state, by appending
\* one issue that names the current step; the unrecognised message returns
\* the guidance of the current step.
C25_OnlyReadinessMovesTheStep ==
  [][\A inp \in InstallInputs(INSTALLATION_STEPS) :
       (/\ Stage("alice") = INSTALLATION_STEPS
        /\ inp.intent = NoIntent
        /\ process_message("alice", inp.message, inp.intent))
         => LET after == states'["alice"] IN
            /\ inp.message \in {Msg.video, Msg.video_next}
                 => after = Alice /\ response'.resp.video.kind \in {"VIDEO", "none"}
                                  /\ response'.resp.t \in {"VIDEO_SEGMENT_TEMPLATE",
                                                           "FULL_VIDEO_FOR_STEP",
                                                           "NO_VIDEO_FOR_STEP"}
            /\ inp.message \in {Msg.help, Msg.help_yes}
                 => /\ after = [Alice EXCEPT !.issues =
                                  Append(@, Issue("Needed help with step",
                                                  Alice.current_step.n))]
                    /\ response' = Returned(Resp("HELP_OPTIONS_MESSAGE"))
            /\ inp.message \in {Msg.support, Msg.support_ready}
                 => /\ after = Alice
                    /\ response' = Returned(Resp("SUPPORT_ESCALATION_MESSAGE"))
            /\ inp.message \in {Msg.hello, Msg.reset_it, Msg.done}
                 => /\ after = Alice
                    /\ response' = Returned(get_step_guidance(
                                      knowledge_base, video_segments,
                                      Alice.installation_method,
                                      Alice.current_step.n))]_vars

\* help was asked for at the second step and the conversation is still there
C25_Witness ==
  /\ Stage("alice") = INSTALLATION_STEPS
  /\ Alice.current_step = PyInt(2)
  /\ Alice.issues = << Issue("Needed help with step", 2) >>
  /\ response = Returned(Resp("HELP_OPTIONS_MESSAGE"))

\* C26: once machine_type is set no message other than "reset" changes it,
\* and once installation_method is set no message other than "reset"
\* changes it: each is assigned at most once between resets.
C26_TypeAndMethodSetOnce ==
  [][\A inp \in EntityInputs(Stage("alice")) :
       process_message("alice", inp.message, inp.intent)
         => LET after == states'["alice"] IN
            /\ Truthy(Alice.machine_type) => after.machine_type = Alice.machine_type
            /\ Truthy(Alice.installation_method)
                 => after.installation_method = Alice.installation_method]_vars

\* an intent naming another method arrived after "Epoxy Mount" was chosen
\* for a pump: both facts are as they were
C26_Witness ==
  /\ Stage("alice") = INSTALLATION_START
  /\ Alice.machine_type = PyStr("Pump")
  /\ Alice.installation_method = PyStr("Epoxy Mount")
  /\ response = Returned(Resp("VIEWING_MODE_REPROMPT"))

\* C27: once recommended_placement has been computed (it is not empty), no
\* message other than "reset" changes it: not the re-prompt of the
\* RECOMMENDATION stage, not the recomputation that follows it, and no
\* handler of a later stage.
C27_PlacementComputedOnce ==
  [][\A inp \in IntakeInputs(Stage("alice")) :
       (/\ Alice.recommended_placement # << >>
        /\ process_message("alice", inp.message, inp.intent))
         => states'["alice"].recommended_placement = Alice.recommended_placement]_vars

\* the recommendation was given for the target "Motor" named by an intent,
\* with three locations
C27_Witness ==
  /\ Stage("alice") = RECOMMENDATION
  /\ Alice.monitoring_target = PyStr("Motor")
  /\ Alice.configuration = PyStr("Direct/Close Coupled")
  /\ Len(Alice.recommended_placement) = 3
  /\ response.resp.t = "RECOMMENDATION_TEMPLATE"

\* C28: in every handler that collects an entity (machine type,
\* configuration, orientation, RPM, sensor count, monitoring target,
\* installation method) the value stored is the entity of the structured
\* intent when the intent supplies one, whatever the words of the message
\* give, and otherwise the result of pattern matching on the message (for the
\* monitoring target, "General" when pattern matching finds none).
C28_IntentEntityHasPriority ==
  [][\A inp \in EntityInputs(Stage("alice")) :
       process_message("alice", inp.message, inp.intent)
         => LET after == states'["alice"]
                intent == IntentFor(inp.message, inp.intent)
                Expected(key, pattern) ==
                  IF EntityOf(intent, key) # None THEN EntityOf(intent, key) ELSE pattern
                target == extract_monitoring_target(inp.message)
            IN /\ after.machine_type # Alice.machine_type
                    => after.machine_type =
                         Expected("machine_type", extract_machine_type(inp.message))
               /\ after.configuration # Alice.configuration
                    => after.configuration =
                         Expected("configuration", extract_configuration(inp.message))
               /\ after.orientation # Alice.orientation
                    => after.orientation =
                         Expected("orientation", extract_orientation(inp.message))
               /\ after.rpm # Alice.rpm
                    => after.rpm = Expected("number", extract_rpm(inp.message))
               /\ after.sensor_count # Alice.sensor_count
                    => after.sensor_count = Expected("number", extract_number(inp.message))
               /\ (after.monitoring_target # Alice.monitoring_target
                     /\ after.monitoring_target # None)
                    => after.monitoring_target =
                         Expected("monitoring_target",
                                  IF target = None THEN PyStr("General") ELSE target)
               /\ after.installation_method # Alice.installation_method
                    => after.installation_method =
                         Expected("installation_method", MethodFromMessage(inp.message))]_vars

\* C29: whenever machine_type is set it is "Fan", "Motor" or "Pump", whether
\* the structured intent or pattern matching supplied it; a message in
\* MACHINE_SELECTION that yields any other value, or none, leaves machine_type
\* unset and the stage at MACHINE_SELECTION and returns the machine-type error.
C29_MachineTypeIsKnown ==
  [][LET Known == {PyStr("Fan"), PyStr("Motor"), PyStr("Pump")}
         after == states'["alice"]
     IN /\ after.machine_type \in Known \cup {None}
        /\ \A inp \in EntityInputs(MACHINE_SELECTION) :
             (/\ Stage("alice") = MACHINE_SELECTION
              /\ process_message("alice", inp.message, inp.intent)
              /\ Layered(IntentFor(inp.message, inp.intent), "machine_type",
                         extract_machine_type(inp.message)) \notin Known)
               => /\ after.machine_type = None
                  /\ after.stage = MACHINE_SELECTION
                  /\ response' = Returned(Resp("MACHINE_TYPE_ERROR"))]_vars

\* C30: whenever rpm or sensor_count is set it is an integer >= 1, whether
\* the structured intent or pattern matching supplied it; a message that
\* yields 0 or no number leaves the field unset and the stage unchanged and
\* returns the re-prompt of the stage.
C30_NumbersArePositive ==
  [][LET after == states'["alice"]
         Positive(v) == v = None \/ (v.k = "int" /\ v.n >= 1)
         Number(message, intent, pattern) ==
           Layered(IntentFor(message, intent), "number", pattern)
     IN /\ Positive(after.rpm)
        /\ Positive(after.sensor_count)
        /\ \A inp \in EntityInputs(ADDITIONAL_INFO) :
             (/\ Stage("alice") = ADDITIONAL_INFO
              /\ Truthy(Alice.orientation)
              /\ process_message("alice", inp.message, inp.intent)
              /\ Number(inp.message, inp.intent, extract_rpm(inp.message))
                   \in {None, PyInt(0)})
               => /\ after.rpm = None
                  /\ after.stage = ADDITIONAL_INFO
                  /\ response' = Returned(Resp("RPM_ERROR"))
        /\ \A inp \in EntityInputs(SENSOR_COUNT) :
             (/\ Stage("alice") = SENSOR_COUNT
              /\ process_message("alice", inp.message, inp.intent)
              /\ Number(inp.message, inp.intent, extract_number(inp.message))
                   \in {None, PyInt(0)})
               => /\ after.sensor_count = None
                  /\ after.stage = SENSOR_COUNT
                  /\ response' = Returned(Resp("SENSOR_COUNT_ERROR"))]_vars

\* C31: a message handled in CONFIGURATION_SELECTION either stores one of the
\* configurations the prompt of the user's machine type (Fan, Motor or Pump)
\* offers and advances to ADDITIONAL_INFO, or stores no configuration and
\* does not advance.
C31_ConfigurationFitsMachineType ==
  [][Stage("alice") = CONFIGURATION_SELECTION
       => LET after == states'["alice"] IN
          \/ /\ after.configuration \in ConfigurationOptions(Alice.machine_type)
             /\ after.stage = ADDITIONAL_INFO
          \/ /\ after.configuration = None
             /\ after.stage \in {CONFIGURATION_SELECTION, WELCOME}]_vars

\* C32: when the configuration is neither "Direct/Close Coupled" nor "Belt
\* Driven", a message handled in RECOMMENDATION while no monitoring target is
\* set is answered with the generic recommendation text, which lists no
\* location; recommended_placement stays empty, monitoring_target is set and
\* the stage stays RECOMMENDATION.
C32_OtherConfigurationGetsGenericText ==
  [][\A inp \in IntakeInputs(RECOMMENDATION) :
       (/\ Stage("alice") = RECOMMENDATION
        /\ ~Truthy(Alice.monitoring_target)
        /\ Alice.configuration \notin {PyStr("Direct/Close Coupled"), PyStr("Belt Driven")}
        /\ HandleRecommendation("alice", inp.message, inp.intent))
         => LET after == states'["alice"] IN
            /\ response' = Returned([Resp("RECOMMENDATION_GENERIC") EXCEPT
                                       !.arg = Alice.configuration,
                                       !.n = Alice.sensor_count.n])
            /\ response'.resp.recs = << >>
            /\ after.recommended_placement = << >>
            /\ Truthy(after.monitoring_target)
            /\ after.stage = RECOMMENDATION]_vars

\* an "Independent Bearing" fan has just been given the generic text, with
\* the target taken from the message
C32_Witness ==
  /\ Stage("alice") = RECOMMENDATION
  /\ Alice.configuration = PyStr("Independent Bearing")
  /\ Alice.monitoring_target = PyStr("Motor")
  /\ Alice.recommended_placement = << >>
  /\ response.resp.t = "RECOMMENDATION_GENERIC"

\* C33: in every state of a conversation of one user whose calls are
\* processed one at a time, the facts the earlier stages collect are present:
\* from CONFIGURATION_SELECTION on machine_type is set, from ADDITIONAL_INFO
\* on configuration, from SENSOR_COUNT on orientation and rpm, from
\* RECOMMENDATION on sensor_count, from INSTALLATION_START on
\* monitoring_target, from INSTALLATION_STEPS on installation_method and a
\* current_step >= 1.
C33_EarlierFactsPresent ==
  LET st == Alice IN
  /\ st.stage >= CONFIGURATION_SELECTION => Truthy(st.machine_type)
  /\ st.stage >= ADDITIONAL_INFO => Truthy(st.configuration)
  /\ st.stage >= SENSOR_COUNT => Truthy(st.orientation) /\ Truthy(st.rpm)
  /\ st.stage >= RECOMMENDATION => Truthy(st.sensor_count)
  /\ st.stage >= INSTALLATION_START => Truthy(st.monitoring_target)
  /\ st.stage >= INSTALLATION_STEPS
       => /\ Truthy(st.installation_method)
          /\ st.current_step.k = "int"
          /\ st.current_step.n >= 1

\* a conversation that has reached the second installation step
C33_Witness ==
  /\ Stage("alice") = INSTALLATION_STEPS
  /\ Alice.installation_method = PyStr("Magnets")
  /\ Alice.current_step = PyInt(2)

\* C34: in every reachable state, for every user, installation_complete is
\* true exactly when the stage is INSTALLATION_COMPLETE.
C34_CompleteFlagMatchesStage ==
  \A u \in DOMAIN states :
    states[u].installation_complete <=> (states[u].stage = INSTALLATION_COMPLETE)

\* C35: whenever step guidance has been returned in INSTALLATION_STEPS, the
\* total it shows ("Step N of T") is the total step count of the user's
\* installation method that decides completion (_get_total_steps), whatever
\* the knowledge base holds.
C35_ShownTotalIsDecidingTotal ==
  (/\ Stage("alice") = INSTALLATION_STEPS
   /\ ~response.exc
   /\ response.resp.t = "STEP_GUIDANCE_TEMPLATE")
    => response.resp.total = get_total_steps(knowledge_base, Alice.installation_method)

\* C36: on the way from INSTALLATION_START to INSTALLATION_COMPLETE the
\* guidance of every step 1..total_steps is returned before the completion
\* message.  The guidance of a step can only be returned while current_step
\* is that step, so: (a) a message that leaves the conversation in
\* INSTALLATION_STEPS at a step it was not at before is answered with that
\* step's guidance or, on entry, with the full video; (b) after the full
\* video, which is not the guidance of step 1, the next message does not move
\* the conversation past step 1.
C36_EveryStepIsGuided ==
  [][LET after == states'["alice"]
         guidance == get_step_guidance(knowledge_base, video_segments',
                                       after.installation_method, after.current_step.n)
     IN /\ (/\ after.stage = INSTALLATION_STEPS
            /\ Stage("alice") # INSTALLATION_STEPS \/ after.current_step # Alice.current_step)
              => \/ response' = Returned(guidance)
                 \/ /\ Stage("alice") = INSTALLATION_START
                    /\ response'.resp.t = "FULL_VIDEO_TEMPLATE"
        /\ (/\ Stage("alice") = INSTALLATION_STEPS
            /\ response.resp.t = "FULL_VIDEO_TEMPLATE")
              => \/ after.stage = INSTALLATION_STEPS /\ after.current_step = PyInt(1)
                 \/ after.stage = WELCOME]_vars

\* C37: on one bot serving two users, the video reference embedded in a
\* user's step guidance or returned for the user's video request is one of
\* the user's own installation method, as the knowledge base gives it,
\* whatever method another user selected in between.
C37_VideoIsOfOwnMethod ==
  [][\A u \in Users :
       \A inp \in Plain({Msg.yes, Msg.step_by_step, Msg.hello, Msg.video, Msg.next}) :
         (/\ Truthy(get_state(states, u).installation_method)
          /\ \/ HandleInstallationStart(u, inp.message, inp.intent)
             \/ HandleInstallationSteps(u, inp.message, inp.intent))
           => LET video == response'.resp.video
                  own == prepare_segments_from_kb(knowledge_base,
                                                  states[u].installation_method, TRUE)
              IN video # NoVideo
                   => /\ video.of = own.of
                      /\ video.ref \in own.refs \cup {0}]_vars

\* C38: in INSTALLATION_COMPLETE, with no intent, the message "not working"
\* is handled as an issue report: exactly one issue is appended to issues and
\* the issue message is returned, not the successful-installation message.
C38_NotWorkingIsAnIssue ==
  [][(/\ Stage("alice") = INSTALLATION_COMPLETE
      /\ HandleInstallationComplete("alice", Msg.not_working, NoIntent))
       => /\ states'["alice"].issues
               = Append(Alice.issues, Issue("Issue after installation", 0))
          /\ response'.resp.t = "INSTALLATION_ISSUE_MESSAGE"]_vars

\* C39: in RECOMMENDATION with monitoring_target unset and no intent, each
\* keyword of the target extractor sent alone sets monitoring_target to its
\* target: "motor" to "Motor", "bearing" to "Bearing", "fan housing" to "Fan
\* Housing", "fan" to "Fan", "general" to "General".
C39_KeywordSetsItsTarget ==
  [][\A pair \in {<<Msg.motor, "Motor">>, <<Msg.bearing_only, "Bearing">>,
                  <<Msg.fan_housing, "Fan Housing">>, <<Msg.fan, "Fan">>,
                  <<Msg.general, "General">>} :
       (/\ Stage("alice") = RECOMMENDATION
        /\ ~Truthy(Alice.monitoring_target)
        /\ HandleRecommendation("alice", pair[1], NoIntent))
         => states'["alice"].monitoring_target = PyStr(pair[2])]_vars

=============================================================================
